---------------------------- MODULE Spec2Model ----------------------------
(***************************************************************************)
(* Model of the collection pipeline of src/data_collector.py              *)
(* (SimpleCollector): the paginated fetch, the response validator,        *)
(* extraction + cleaning + quality gate (process_to_dataframe), the run   *)
(* of main, save_data with its backups, and the entry points.             *)
(*                                                                         *)
(* Spec          the paginated fetch against a remote that may fail,      *)
(*               answer malformed bodies, or serve 0..limit records.      *)
(* SpecValidate  validate_api_response applied to every response shape.   *)
(* SpecProcess   process_to_dataframe applied to bounded raw result lists.*)
(* SpecExtract   safe_extract applied to one declared field of a record.  *)
(* SpecClean     clean_dataframe applied to bounded RecordSets, twice.    *)
(* SpecGate      validate_processed_data applied to RecordSets built from *)
(*               issue counts.                                             *)
(* SpecMain      main: fetch outcome, process_to_dataframe, save_data.    *)
(* SpecSave      save_data called repeatedly on one data directory.       *)
(* SpecReload    save_data followed by the dashboard's load_data          *)
(*               (src/dashboard.py).                                       *)
(* SpecFair      Spec with the fairness of a running fetch.               *)
(* SpecEntry     the entry points that send requests: default run,        *)
(*               interactive run, fetch_all_award_types.                  *)
(***************************************************************************)
EXTENDS Integers, Sequences, FiniteSets, TLC

VARIABLES
    pc,              \* position of the running function
    total_limit,     \* fetch_spending_data_with_pagination: total_limit
    total_requests,  \* ceil(total_limit / api_max_limit)
    request_num,     \* the for-loop variable; -1 while still unbound
    all_results,     \* accumulator, as the sequence of batches extended into it
    current_limit,   \* limit of the request in flight / last issued
    current_page,    \* page of the request in flight / last issued
    response,        \* what the remote answered to the last request
    batch_data,      \* what fetch_spending_data_with_page returned for it
    final_response,  \* return value of the paginated fetch
    log,             \* history: request / response / delay events, in order
    response_data,   \* SpecValidate: argument of validate_api_response
    validation,      \* SpecValidate: its outcome
    data,            \* SpecProcess: argument of process_to_dataframe (raw results)
    returned_df,     \* SpecProcess: returned DataFrame (sequence of rows)
    records,         \* SpecProcess: rows appended by the extraction loop
    field_errors,    \* per-field conversion error tally
    error_count,     \* SpecProcess: records skipped during extraction
    raw_item,        \* SpecExtract: the raw record safe_extract reads (`item`)
    extract_args,    \* SpecExtract: field_name, fallback, convert_type, index i
    extract_result,  \* SpecExtract: what safe_extract did
    clean_df,        \* SpecClean: argument of clean_dataframe
    cleaned_df,      \* SpecClean: its result
    recleaned_df,    \* SpecClean: the result of cleaning `cleaned_df` again
    gate_df,         \* argument of the last call of validate_processed_data
    gate_result,     \* its outcome: "accepted" / "rejected"; "none" before a call
    files,           \* SpecMain: the data files of the data directory
    files_before,    \* SpecMain: the data files when the run began
    save_calls,      \* SpecMain: history, the arguments save_data was called with
    run_result,      \* SpecMain: what main returned; "none" while it runs
    selected_group,  \* SpecMain: the award group main is fetching
    save_log,        \* history: one entry per call of save_data, in order
    loaded_df,       \* SpecReload: the dashboard's table (self.df) after load_data
    loaded_from      \* SpecReload: the loader that filled it; "none" before / if none

vars == <<pc, total_limit, total_requests, request_num, all_results,
          current_limit, current_page, response, batch_data, final_response,
          log, response_data, validation, data, returned_df, records,
          field_errors, error_count, raw_item, extract_args, extract_result,
          clean_df, cleaned_df, recleaned_df, gate_df, gate_result, files,
          files_before, save_calls, run_result, selected_group, save_log,
          loaded_df, loaded_from>>

fetchVars == <<total_limit, total_requests, request_num, all_results,
               current_limit, current_page, response, batch_data,
               final_response, log>>
validateVars == <<response_data, validation>>
processVars == <<data, returned_df, records, field_errors, error_count>>
extractVars == <<raw_item, extract_args, extract_result>>
cleanVars == <<clean_df, cleaned_df, recleaned_df>>
gateVars == <<gate_df, gate_result>>
reloadVars == <<loaded_df, loaded_from>>
mainVars == <<files, files_before, save_calls, run_result, selected_group, save_log,
              reloadVars>>
laterVars == <<extractVars, cleanVars, gateVars, mainVars>>

(***************************************************************************)
(* Bounds and program constants                                            *)
(***************************************************************************)
MaxTarget == 250

api_max_limit == 100

Min(a, b) == IF a < b THEN a ELSE b

RECURSIVE SumSeq(_)
SumSeq(s) == IF s = <<>> THEN 0 ELSE Head(s) + SumSeq(Tail(s))

(***************************************************************************)
(* Responses of the remote API                                             *)
(*                                                                         *)
(* A response is what requests.post() produced: a transport failure, a    *)
(* non-200 status, a body that is not JSON, or a JSON body.  Of a body    *)
(* the code reads only its shape, the length of "results" and the first   *)
(* element, so a body is [shape, n, first].  The first element is         *)
(* [type, keys]: a "dict" with those keys, a "list" (list or string, a    *)
(* container without .get) holding those members, or a "scalar" (null, a  *)
(* number) that supports neither len() nor `in`.                          *)
(***************************************************************************)
basic_fields == {"Award ID", "Recipient Name", "Award Amount"}

OtherFields == {"Description", "internal_id"}

First(type, keys) == [type |-> type, keys |-> keys]

NoFirst == First("absent", {})

FirstRecords ==
    { First(t, k) : t \in {"dict", "list"}, k \in SUBSET (basic_fields \cup OtherFields) }
        \cup {First("scalar", {})}

Response(kind, shape, n, first) ==
    [kind |-> kind, shape |-> shape, n |-> n, first |-> first]

None == Response("None", "none", 0, NoFirst)

TransportFailures ==
    { Response(k, "none", 0, NoFirst) :
        k \in {"timeout", "connection_error", "http_error", "json_error"} }

MalformedBodies ==
    { Response("json", s, 0, NoFirst) :
        s \in {"not_mapping", "no_results", "results_not_list"} }

ListBodies(sizes, firsts) ==
    { Response("json", "list", n, IF n = 0 THEN NoFirst ELSE f) :
        n \in sizes, f \in firsts }

(***************************************************************************)
(* validate_api_response: "true", "false", or "raises" when len() of a    *)
(* scalar first element raises TypeError out of the function.             *)
(***************************************************************************)
FoundFields(first_record) == basic_fields \cap first_record.keys

\* faulty variant: an empty results list is rejected
ValidateApiResponse_RejectEmpty(r) ==
    IF r.kind = "None" \/ r.shape # "list" \/ r.n = 0 THEN "false"
    ELSE IF r.first.type = "scalar" THEN "raises"
    ELSE IF Cardinality(FoundFields(r.first)) = 0 THEN "false"
    ELSE "true"

\* faulty variant: every basic field is required of the first record
ValidateApiResponse_AllFields(r) ==
    IF r.kind = "None" \/ r.shape # "list" THEN "false"
    ELSE IF r.n = 0 THEN "true"
    ELSE IF r.first.type = "scalar" THEN "raises"
    ELSE IF FoundFields(r.first) # basic_fields THEN "false"
    ELSE "true"

ValidateApiResponse(r) ==
    IF r.kind = "None" THEN "false"
    ELSE IF r.shape = "not_mapping" THEN "false"
    ELSE IF r.shape = "no_results" THEN "false"
    ELSE IF r.shape = "results_not_list" THEN "false"
    ELSE IF r.n = 0 THEN "true"
    ELSE IF r.first.type = "scalar" THEN "raises"
    ELSE IF Cardinality(FoundFields(r.first)) = 0 THEN "false"
    ELSE "true"

(***************************************************************************)
(* fetch_spending_data_with_page, from the answer of requests.post() on:  *)
(* every exception and every rejected body becomes None.                  *)
(***************************************************************************)
FetchSpendingDataWithPage(r) ==
    IF r.kind # "json" THEN None                       \* timeout, connection, status, json()
    ELSE IF r.shape = "not_mapping" THEN None          \* response_data.keys() raises
    ELSE IF r.shape = "list" /\ r.n > 0 /\ r.first.type # "dict"
         THEN None                                     \* len(first) / first.get raises
    ELSE IF ValidateApiResponse(r) = "true" THEN r
    ELSE None

(***************************************************************************)
(* fetch_spending_data_with_pagination                                    *)
(*                                                                         *)
(* all_results is kept as the sequence of batches extended into it, each  *)
(* [page, limit, n]: the n records the remote served for that request.    *)
(***************************************************************************)
Batch(page, limit, n) == [page |-> page, limit |-> limit, n |-> n]

RECURSIVE LenResults(_)
LenResults(batches) ==
    IF batches = <<>> THEN 0 ELSE Head(batches).n + LenResults(Tail(batches))

\* faulty variant: one iteration per record instead of one per page
TotalRequests_PerRecord(limit) == limit

\* faulty variant: floor instead of ceiling division
TotalRequests_Floor(limit) == limit \div api_max_limit

TotalRequests(limit) == (limit + api_max_limit - 1) \div api_max_limit

RemainingRecords(limit, results) == limit - LenResults(results)

CurrentLimit(limit, results) == Min(api_max_limit, RemainingRecords(limit, results))

\* faulty variant: pages counted from 0
CurrentPage_ZeroBased(num) == num

CurrentPage(num) == num + 1

\* `batch_data and 'results' in batch_data and batch_data['results']`
HasResults(batch) == batch # None /\ batch.shape = "list" /\ batch.n > 0

\* faulty variant: a short page does not end the loop
AfterBatch_NoEarlyStop(batch, limit) ==
    IF batch # None /\ batch.shape = "list" /\ batch.n > 0 THEN "sleep" ELSE "loop"

\* faulty variant: a page without data ends the loop
AfterBatch_AbortOnFailure(batch, limit) ==
    IF batch # None /\ batch.shape = "list" /\ batch.n > 0
    THEN IF batch.n < limit THEN "finish" ELSE "sleep"
    ELSE "finish"

\* where the loop body goes after the request returned (lines 254-271)
AfterBatch(batch, limit) ==
    IF HasResults(batch)
    THEN IF batch.n < limit THEN "finish"      \* fewer than requested: break
         ELSE "sleep"                          \* time.sleep(1), then next iteration
    ELSE "loop"                                \* continue

\* faulty variant: the loop variable reported as is
RequestsMade_LoopVariable(num) == num

RequestsMade(num) == num + 1

NoResponse ==
    [is_none |-> TRUE, results |-> <<>>, total |-> 0, requests_made |-> 0]

\* faulty variant: a fetch in which some request brought no batch is reported as failed
FinalResponse_FailOnSkippedPage(results, num) ==
    IF LenResults(results) > 0 /\ Len(results) = num + 1
    THEN [is_none |-> FALSE, results |-> results, total |-> LenResults(results),
          requests_made |-> num + 1]
    ELSE NoResponse

FinalResponse(results, num) ==
    IF LenResults(results) > 0
    THEN [is_none |-> FALSE, results |-> results, total |-> LenResults(results),
          requests_made |-> RequestsMade(num)]
    ELSE NoResponse

Event(ev, page, limit, n, acc) ==
    [ev |-> ev, page |-> page, limit |-> limit, n |-> n, acc |-> acc]

\* what the remote may answer to a request for `limit` records
PageSizes(limit) == {0, 1, limit - 1, limit} \cap (0 .. limit)

PageFirsts ==
    { First("dict", basic_fields), First("dict", {"Award ID", "Description"}),
      First("dict", OtherFields), First("dict", {}),
      First("list", {"Award ID"}), First("scalar", {}) }

RemoteAnswers(limit) ==
    TransportFailures \cup MalformedBodies \cup ListBodies(PageSizes(limit), PageFirsts)

FetchIdle ==
    /\ total_limit = 0 /\ total_requests = 0 /\ request_num = -1
    /\ all_results = <<>> /\ current_limit = 0 /\ current_page = 0
    /\ response = None /\ batch_data = None /\ final_response = NoResponse
    /\ log = <<>>

ValidateIdle == response_data = None /\ validation = "none"

ProcessIdle ==
    /\ data = <<>> /\ returned_df = <<>> /\ records = <<>>
    /\ field_errors = <<>> /\ error_count = 0

ExtractIdle == raw_item = <<>> /\ extract_args = <<>> /\ extract_result = <<>>

CleanIdle == clean_df = <<>> /\ cleaned_df = <<>> /\ recleaned_df = <<>>

GateIdle == gate_df = <<>> /\ gate_result = "none"

MainIdle ==
    /\ files = <<>> /\ files_before = <<>> /\ save_calls = <<>> /\ run_result = "none"
    /\ selected_group = "none" /\ save_log = <<>>
    /\ loaded_df = <<>> /\ loaded_from = "none"

LaterIdle == ExtractIdle /\ CleanIdle /\ GateIdle /\ MainIdle

Init == pc = "idle" /\ FetchIdle /\ ValidateIdle /\ ProcessIdle /\ LaterIdle

\* lines 218-231: the call, up to the loop
Call(limit) ==
    /\ pc = "idle"
    /\ total_limit' = limit
    /\ total_requests' = TotalRequests(limit)
    /\ all_results' = <<>>
    /\ pc' = "loop"
    /\ UNCHANGED <<request_num, current_limit, current_page, response,
                   batch_data, final_response, log>>
    /\ UNCHANGED <<validateVars, processVars, laterVars>>

\* lines 233-252: the next iteration computes the limit and posts the request
IssueRequest ==
    /\ pc = "loop"
    /\ request_num + 1 < total_requests
    /\ CurrentLimit(total_limit, all_results) > 0
    /\ request_num' = request_num + 1
    /\ current_limit' = CurrentLimit(total_limit, all_results)
    /\ current_page' = CurrentPage(request_num')
    /\ log' = Append(log, Event("request", current_page', current_limit', 0,
                                LenResults(all_results)))
    /\ pc' = "wait"
    /\ UNCHANGED <<total_limit, total_requests, all_results, response,
                   batch_data, final_response>>
    /\ UNCHANGED <<validateVars, processVars, laterVars>>

\* range() exhausted, or the break at lines 238-239.  The remote serves at most
\* `limit` records per page (PageSizes), so fewer than 100 * request_num records
\* are accumulated when an iteration starts and the break is never taken.
LeaveLoop ==
    /\ pc = "loop"
    /\ IF request_num + 1 < total_requests
       THEN /\ CurrentLimit(total_limit, all_results) <= 0      \* lines 238-239
            /\ request_num' = request_num + 1
            /\ current_limit' = CurrentLimit(total_limit, all_results)
       ELSE UNCHANGED <<request_num, current_limit>>            \* range() exhausted
    /\ pc' = "finish"
    /\ UNCHANGED <<total_limit, total_requests, all_results, current_page,
                   response, batch_data, final_response, log>>
    /\ UNCHANGED <<validateVars, processVars, laterVars>>

\* lines 248-267 with fetch_spending_data_with_page (397-441): the remote answers,
\* the page is validated, and the batch is accumulated or skipped
ReceivePage(r) ==
    /\ pc = "wait"
    /\ response' = r
    /\ batch_data' = FetchSpendingDataWithPage(r)
    /\ all_results' = IF HasResults(batch_data')
                      THEN Append(all_results,
                                  Batch(current_page, current_limit, batch_data'.n))
                      ELSE all_results
    /\ log' = Append(log,
                Event(IF batch_data' = None THEN "failed"
                      ELSE IF batch_data'.n = 0 THEN "empty" ELSE "records",
                      current_page, current_limit,
                      IF HasResults(batch_data') THEN batch_data'.n ELSE 0,
                      LenResults(all_results')))
    /\ pc' = AfterBatch(batch_data', current_limit)
    /\ UNCHANGED <<total_limit, total_requests, request_num, current_limit,
                   current_page, final_response>>
    /\ UNCHANGED <<validateVars, processVars, laterVars>>

\* lines 269-271: the delay at the end of an iteration
Sleep ==
    /\ pc = "sleep"
    /\ log' = Append(log, Event("delay", current_page, current_limit, 0,
                                LenResults(all_results)))
    /\ pc' = "loop"
    /\ UNCHANGED <<total_limit, total_requests, request_num, all_results,
                   current_limit, current_page, response, batch_data,
                   final_response>>
    /\ UNCHANGED <<validateVars, processVars, laterVars>>

\* lines 273-293
Return ==
    /\ pc = "finish"
    /\ final_response' = FinalResponse(all_results, request_num)
    /\ pc' = "done"
    /\ UNCHANGED <<total_limit, total_requests, request_num, all_results,
                   current_limit, current_page, response, batch_data, log>>
    /\ UNCHANGED <<validateVars, processVars, laterVars>>

Next ==
    \/ \E limit \in 0 .. MaxTarget : Call(limit)
    \/ IssueRequest
    \/ \E r \in RemoteAnswers(current_limit) : ReceivePage(r)
    \/ Sleep
    \/ LeaveLoop
    \/ Return

Spec == Init /\ [][Next]_vars

(***************************************************************************)
(* Reading the history                                                     *)
(***************************************************************************)
IsRequest(e) == e.ev = "request"

IsAnswer(e) == e.ev \in {"failed", "empty", "records"}

Requests == SelectSeq(log, IsRequest)

Answers == SelectSeq(log, IsAnswer)

RecordsAnswered(upto) ==
    LenResults(SelectSeq(SubSeq(log, 1, upto), IsAnswer))

CeilOfTarget ==
    IF total_limit % 100 = 0 THEN total_limit \div 100 ELSE (total_limit \div 100) + 1

AllPagesFull ==
    \A i \in 1 .. Len(Answers) :
        Answers[i].ev = "records" /\ Answers[i].n = Answers[i].limit

RequestLimits == [k \in 1 .. Len(Requests) |-> Requests[k].limit]

\* the remote's last answer was a failure of the page: transport, status, or a
\* body that validate_api_response does not accept
FailedAnswer(r) ==
    \/ r.kind \in {"timeout", "connection_error", "http_error", "json_error"}
    \/ r.kind = "json" /\ ValidateApiResponse(r) # "true"

Answered == pc \in {"loop", "sleep", "finish", "done"} /\ Answers # <<>>

LastAnswer == Answers[Len(Answers)]

(***************************************************************************)
(* C1: with target T >= 1 and every page served in full, the fetch issues *)
(* exactly ceil(T/100) requests and the k-th asks for min(100, T - records*)
(* accumulated so far); for T = 250 the sizes are 100, 100, 50.           *)
(***************************************************************************)
C1_RequestSizes ==
    (total_limit >= 1 /\ AllPagesFull) =>
        /\ \A j \in 1 .. Len(log) :
              IsRequest(log[j]) =>
                 log[j].limit = Min(100, total_limit - RecordsAnswered(j))
        /\ pc = "done" =>
              /\ Len(Requests) = CeilOfTarget
              /\ total_limit = 250 => RequestLimits = <<100, 100, 50>>

C1_Witness ==
    /\ pc = "done" /\ total_limit = 250 /\ AllPagesFull
    /\ RequestLimits = <<100, 100, 50>>

(***************************************************************************)
(* C2 as claimed: after any successful request whose page held fewer      *)
(* records than requested (an empty page included) no further request is  *)
(* issued, and the fetch ends normally, not as a failure.                 *)
(***************************************************************************)
C2_StopsAfterAnyShortPage ==
    \A j \in 1 .. Len(log) :
        (log[j].ev \in {"empty", "records"} /\ log[j].n < log[j].limit) =>
            /\ \A k \in (j + 1) .. Len(log) : ~IsRequest(log[k])
            /\ pc = "done" => ~final_response.is_none

(***************************************************************************)
(* C2 amended: after a successful request whose page held at least one    *)
(* record but fewer than requested, no further request is issued and the  *)
(* fetch returns success with what was accumulated.                       *)
(***************************************************************************)
C2_StopsAfterShortNonEmptyPage ==
    \A j \in 1 .. Len(log) :
        (log[j].ev = "records" /\ log[j].n < log[j].limit) =>
            /\ j = Len(log)
            /\ pc \in {"finish", "done"}
            /\ pc = "done" =>
                  ~final_response.is_none /\ final_response.total = log[j].acc

C2_Witness ==
    /\ pc = "done" /\ log # <<>>
    /\ log[Len(log)].ev = "records" /\ log[Len(log)].n < log[Len(log)].limit
    /\ Len(Requests) < total_requests
    /\ ~final_response.is_none

(***************************************************************************)
(* C3: a failed page (timeout, connection error, non-200 status, body     *)
(* rejected by validate_api_response) does not abort the fetch: it leaves *)
(* the accumulator as it was and, while fewer than ceil(T/100) requests   *)
(* were issued, the next page number is requested.                        *)
(***************************************************************************)
C3_FailedPageSkipped ==
    /\ (Answered /\ FailedAnswer(response)) => LastAnswer.ev = "failed"
    /\ \A j \in 1 .. Len(log) :
          log[j].ev = "failed" =>
             /\ IsRequest(log[j - 1]) /\ log[j].acc = log[j - 1].acc
             /\ j = Len(log) => pc \in {"loop", "finish", "done"}
             /\ (j = Len(log) /\ pc \in {"finish", "done"}) =>
                   log[j].page = CeilOfTarget
             /\ j < Len(log) =>
                   IsRequest(log[j + 1]) /\ log[j + 1].page = log[j].page + 1

C3_Witness ==
    /\ pc = "done"
    /\ \E j \in 1 .. Len(log) : log[j].ev = "failed" /\ log[j].page = 1
    /\ \E j \in 1 .. Len(log) : log[j].ev = "records" /\ log[j].page = 2
    /\ response.kind = "json" /\ ValidateApiResponse(response) = "false"

(***************************************************************************)
(* C4: the fetch returns None exactly when no record was accumulated over *)
(* all attempted pages; otherwise it returns the accumulated records,     *)
(* also when they are fewer than the target.                              *)
(***************************************************************************)
C4_FailureIffNothingAccumulated ==
    pc = "done" =>
        /\ final_response.is_none <=> RecordsAnswered(Len(log)) = 0
        /\ ~final_response.is_none =>
              /\ final_response.total = RecordsAnswered(Len(log))
              /\ final_response.results = all_results

C4_Witness ==
    /\ pc = "done" /\ ~final_response.is_none
    /\ final_response.total < total_limit
    /\ \E j \in 1 .. Len(log) : log[j].ev = "failed"

(***************************************************************************)
(* C5: requests go out one at a time, the k-th carrying page number k     *)
(* from 1 on; no page number is requested twice, also after a failure.    *)
(***************************************************************************)
C5_SequentialPages ==
    /\ \A k \in 1 .. Len(Requests) : Requests[k].page = k
    /\ \A j \in 1 .. Len(log) :
          IsRequest(log[j]) =>
             IF j = Len(log) THEN pc = "wait" ELSE IsAnswer(log[j + 1])
    /\ pc = "wait" => (log # <<>> /\ IsRequest(log[Len(log)]))

C5_Witness ==
    /\ Len(Requests) = 3
    /\ \E j \in 1 .. Len(log) : log[j].ev = "failed" /\ log[j].page = 2

(***************************************************************************)
(* C6: an empty results list passes validation, adds no record and does   *)
(* not fail the fetch: records of other pages are returned as a success.  *)
(***************************************************************************)
EmptyPage(r) == r.kind = "json" /\ r.shape = "list" /\ r.n = 0

C6_EmptyPageValid ==
    /\ (Answered /\ EmptyPage(response)) =>
          /\ batch_data = response
          /\ LastAnswer.ev = "empty"
    /\ \A j \in 1 .. Len(log) :
          log[j].ev = "empty" =>
             /\ log[j].n = 0 /\ log[j].acc = log[j - 1].acc
             /\ (pc = "done" /\ RecordsAnswered(Len(log)) > 0) =>
                   /\ ~final_response.is_none
                   /\ final_response.total = RecordsAnswered(Len(log))

C6_Witness ==
    /\ pc = "done" /\ ~final_response.is_none
    /\ EmptyPage(response)
    /\ \E j \in 1 .. Len(log) : log[j].ev = "records"

(***************************************************************************)
(* C7 as claimed: every request after the first follows a delay step,     *)
(* whether the page before it succeeded or failed.                        *)
(***************************************************************************)
C7_DelayBeforeEveryLaterRequest ==
    \A j \in 2 .. Len(log) : IsRequest(log[j]) => log[j - 1].ev = "delay"

(***************************************************************************)
(* C8: on success requests_made is the number of page requests the fetch  *)
(* issued, failed and short pages included.                               *)
(***************************************************************************)
C8_RequestsMadeCounted ==
    (pc = "done" /\ ~final_response.is_none) =>
        final_response.requests_made = Len(Requests)

C8_Witness ==
    /\ pc = "done" /\ ~final_response.is_none
    /\ final_response.requests_made = 2 /\ total_requests = 3
    /\ \E j \in 1 .. Len(log) : log[j].ev = "failed"

(***************************************************************************)
(* validate_api_response on its own: every response shape, lists of up to *)
(* MaxResults elements with every first element of FirstRecords.          *)
(***************************************************************************)
MaxResults == 2

ValidateInputs ==
    {None} \cup MalformedBodies \cup ListBodies(0 .. MaxResults, FirstRecords)

InitValidate ==
    /\ pc = "validate"
    /\ FetchIdle /\ ProcessIdle /\ LaterIdle
    /\ response_data \in ValidateInputs
    /\ validation = "none"

ValidateCall ==
    /\ pc = "validate"
    /\ validation' = ValidateApiResponse(response_data)
    /\ pc' = "validated"
    /\ UNCHANGED <<response_data, fetchVars, processVars, laterVars>>

NextValidate == ValidateCall

SpecValidate == InitValidate /\ [][NextValidate]_vars

(***************************************************************************)
(* C9: validate_api_response returns false for a response that is not a   *)
(* mapping, has no "results" key or whose "results" is not a list; true   *)
(* for an empty list; and for a non-empty list true exactly when the      *)
(* first element contains one of Award ID, Recipient Name, Award Amount.  *)
(***************************************************************************)
ContainsBasicField(first_record) ==
    /\ first_record.type \in {"dict", "list"}
    /\ \/ "Award ID" \in first_record.keys
       \/ "Recipient Name" \in first_record.keys
       \/ "Award Amount" \in first_record.keys

C9_ValidateApiResponse ==
    pc = "validated" =>
        /\ (response_data = None \/ response_data.shape # "list") =>
              validation = "false"
        /\ (response_data.shape = "list" /\ response_data.n = 0) =>
              validation = "true"
        /\ (response_data.shape = "list" /\ response_data.n > 0) =>
              (validation = "true" <=> ContainsBasicField(response_data.first))

C9_Witness ==
    /\ pc = "validated" /\ validation = "true"
    /\ response_data.n > 0
    /\ response_data.first.keys = {"Award Amount", "Description"}

(***************************************************************************)
(* process_to_dataframe: extraction, cleaning, quality gate               *)
(*                                                                         *)
(* A raw value is [t, s, v]: "missing" (key absent), "null", a "str" with *)
(* text s, or a "num" v.  Texts come from a small vocabulary on which     *)
(* strip(), float() and the 'Unknown' search are tabulated.  Amounts are  *)
(* whole numbers.                                                         *)
(***************************************************************************)
MaxRecords == 2

Raw(t, s, v) == [t |-> t, s |-> s, v |-> v]

Missing == Raw("missing", "", 0)

Null == Raw("null", "", 0)

Str(s) == Raw("str", s, 0)

Num(v) == Raw("num", "", v)

\* str.strip()
Strip(s) ==
    CASE s = " " -> ""
      [] s = " X1 " -> "X1"
      [] s = " Acme " -> "Acme"
      [] OTHER -> s

\* float(): [ok, v]; ok = FALSE stands for ValueError
Float(s) ==
    CASE s = "500" -> [ok |-> TRUE, v |-> 500]
      [] s = " 900 " -> [ok |-> TRUE, v |-> 900]
      [] s = "-5" -> [ok |-> TRUE, v |-> -5]
      [] OTHER -> [ok |-> FALSE, v |-> 0]

\* str.contains('Unknown', case=False)
ContainsUnknown(s) ==
    s \in {"Unknown Recipient", "Unknown Corp", "UNKNOWN LLC", "Unknown Agency"}

UnknownId(i) == "UNKNOWN_ID_" \o ToString(i)

\* what a call of safe_extract did: the value returned, whether the except
\* clause ran (error), whether an exception left the function (raised)
Extracted(value, error) == [value |-> value, error |-> error, raised |-> FALSE]

Raised(fallback) == [value |-> fallback, error |-> FALSE, raised |-> TRUE]

Converted(value) == [ok |-> TRUE, value |-> value]

ConversionError(fallback) == [ok |-> FALSE, value |-> fallback]

\* lines 484-494, the try block; `item` maps field names to raw values
TryExtract(item, field_name, fallback, convert_type) ==
    LET value == item[field_name] IN
    IF value.t = "missing"                    \* item.get() hands back the fallback
    THEN Converted(IF convert_type = "str" /\ fallback # ""
                   THEN Strip(fallback) ELSE fallback)
    ELSE IF value.t = "null" \/ (value.t = "str" /\ value.s = "")
         THEN Converted(fallback)
    ELSE IF convert_type = "str"
         THEN Converted(IF value.t = "num" THEN ToString(value.v) ELSE Strip(value.s))
    ELSE \* float
         IF value.t = "num" THEN Converted(value.v)
         ELSE IF value.s = "null" THEN Converted(0)
         ELSE IF Float(value.s).ok THEN Converted(Float(value.s).v)
         ELSE ConversionError(fallback)           \* float() raises ValueError

\* faulty variant: no except clause, a failed conversion leaves the function
SafeExtract_NoExcept(item, field_name, fallback, convert_type) ==
    LET try == TryExtract(item, field_name, fallback, convert_type) IN
    IF try.ok THEN Extracted(try.value, FALSE) ELSE Raised(fallback)

\* faulty variant: a negative number is treated as invalid and zero-filled
SafeExtract_RejectNegative(item, field_name, fallback, convert_type) ==
    LET try == TryExtract(item, field_name, fallback, convert_type) IN
    IF try.ok /\ convert_type = "float" /\ try.value < 0
    THEN Extracted(fallback, FALSE)
    ELSE IF try.ok THEN Extracted(try.value, FALSE)
    ELSE Extracted(fallback, TRUE)

\* lines 482-499
SafeExtract(item, field_name, fallback, convert_type) ==
    LET try == TryExtract(item, field_name, fallback, convert_type) IN
    IF try.ok THEN Extracted(try.value, FALSE)
    ELSE Extracted(fallback, TRUE)                \* except: tally, fallback

\* field_errors[field_name] = field_errors.get(field_name, 0) + 1  (line 496);
\* the dict is a function on the field names that have an entry
Tally(errors, field_name) ==
    [f \in DOMAIN errors \cup {field_name} |->
        IF f = field_name
        THEN (IF f \in DOMAIN errors THEN errors[f] ELSE 0) + 1
        ELSE errors[f]]

MonetaryFields ==
    {"Award Amount", "COVID-19 Obligations", "COVID-19 Outlays",
     "Infrastructure Obligations", "Infrastructure Outlays"}

\* lines 504-508: the calls with convert_type float
FloatCalls(i) ==
    { [field_name |-> f, fallback |-> 0, convert_type |-> "float", i |-> i] :
        f \in MonetaryFields }

\* lines 511-517: calls with the default convert_type str
StrCalls(i) ==
    { [field_name |-> "Award ID", fallback |-> UnknownId(i + 1),
       convert_type |-> "str", i |-> i],
      [field_name |-> "Recipient Name", fallback |-> "Unknown Recipient",
       convert_type |-> "str", i |-> i],
      [field_name |-> "recipient_id", fallback |-> "No ID",
       convert_type |-> "str", i |-> i],
      [field_name |-> "Awarding Agency", fallback |-> "Unknown Agency",
       convert_type |-> "str", i |-> i] }

RawFields == MonetaryFields \cup {"Award ID", "Recipient Name", "Awarding Agency"}

\* lines 501-552: the financial fields and the fields the cleaner and the quality
\* gate read; i is the 0-based enumerate() index; src remembers the raw record a
\* row came from
ExtractRecord(item, i) ==
    [award_amount |-> SafeExtract(item, "Award Amount", 0, "float").value,
     covid_19_obligations |->
         SafeExtract(item, "COVID-19 Obligations", 0, "float").value,
     covid_19_outlays |-> SafeExtract(item, "COVID-19 Outlays", 0, "float").value,
     infrastructure_obligations |->
         SafeExtract(item, "Infrastructure Obligations", 0, "float").value,
     infrastructure_outlays |->
         SafeExtract(item, "Infrastructure Outlays", 0, "float").value,
     award_id |-> SafeExtract(item, "Award ID", UnknownId(i + 1), "str").value,
     recipient_name |->
         SafeExtract(item, "Recipient Name", "Unknown Recipient", "str").value,
     awarding_agency |->
         SafeExtract(item, "Awarding Agency", "Unknown Agency", "str").value,
     fetched_at |-> "now",                        \* lines 548-552
     src |-> i + 1]

\* faulty variant: only emptiness is tested, not the sentinels
HasEssential_NoSentinels(record, i) ==
    record.award_id # "" /\ record.recipient_name # ""

\* lines 554-560
HasEssential(record, i) ==
    \A value \in {record.award_id, record.recipient_name} :
        /\ value # ""
        /\ value \notin {UnknownId(i + 1), "Unknown Recipient", ""}

\* an exception leaving a call of safe_extract ends the record (lines 569-573)
RecordRaises(item, i) ==
    \/ \E c \in FloatCalls(i) :
          SafeExtract(item, c.field_name, c.fallback, c.convert_type).raised
    \/ \E c \in StrCalls(i) :
          /\ c.field_name \in DOMAIN item
          /\ SafeExtract(item, c.field_name, c.fallback, c.convert_type).raised

\* lines 470-573: the rows kept, in order
RECURSIVE ExtractFrom(_, _)
ExtractFrom(results, i) ==
    IF i >= Len(results) THEN <<>>
    ELSE LET item == results[i + 1] IN
         IF ~item.is_dict THEN ExtractFrom(results, i + 1)
         ELSE IF RecordRaises(item.fields, i) THEN ExtractFrom(results, i + 1)
         ELSE IF HasEssential(ExtractRecord(item.fields, i), i)
              THEN <<ExtractRecord(item.fields, i)>> \o ExtractFrom(results, i + 1)
              ELSE ExtractFrom(results, i + 1)

ExtractRecords(results) == ExtractFrom(results, 0)

\* the records in which the call for field f reached the except clause
FailedCalls(results, f) ==
    { i \in 1 .. Len(results) :
        /\ results[i].is_dict
        /\ SafeExtract(results[i].fields, f, 0, "float").error }

\* field_errors after the loop: one entry per field with a failed conversion
\* (only the float fields can fail)
FieldErrors(results) ==
    [f \in { g \in MonetaryFields : FailedCalls(results, g) # {} } |->
        Cardinality(FailedCalls(results, f))]

(***************************************************************************)
(* clean_dataframe.  sort_values() uses the default quicksort, which is   *)
(* not stable: rows of equal amount may come out in any order.            *)
(***************************************************************************)
Injections(n) == { f \in [1 .. n -> 1 .. n] : \A a, b \in 1 .. n : f[a] = f[b] => a = b }

\* faulty variant: ascending left at its default (True)
SortValuesDesc_Ascending(df) ==
    { [k \in 1 .. Len(df) |-> df[f[k]]] : f \in
        { g \in Injections(Len(df)) :
            \A k \in 1 .. Len(df) - 1 :
                df[g[k]].award_amount <= df[g[k + 1]].award_amount } }

\* faulty variant: the rows are put in reverse order, not sorted
SortValuesDesc_Reverse(df) == {[k \in 1 .. Len(df) |-> df[Len(df) + 1 - k]]}

\* df.sort_values('award_amount', ascending=False): the possible results
SortValuesDesc(df) ==
    { [k \in 1 .. Len(df) |-> df[f[k]]] : f \in
        { g \in Injections(Len(df)) :
            \A k \in 1 .. Len(df) - 1 :
                df[g[k]].award_amount >= df[g[k + 1]].award_amount } }

\* df.duplicated(subset=['award_id']): a row with an earlier row of the same id
Duplicated(df, k) == \E j \in 1 .. k - 1 : df[j].award_id = df[k].award_id

DuplicateCount(df) == Cardinality({ k \in 1 .. Len(df) : Duplicated(df, k) })

RECURSIVE DropDuplicatesFrom(_, _)
DropDuplicatesFrom(df, k) ==
    IF k > Len(df) THEN <<>>
    ELSE (IF Duplicated(df, k) THEN <<>> ELSE <<df[k]>>)
             \o DropDuplicatesFrom(df, k + 1)

\* faulty variant: keep='last'
DropDuplicates_KeepLast(df) ==
    LET Reverse(rows) == [k \in 1 .. Len(rows) |-> rows[Len(rows) + 1 - k]]
    IN Reverse(DropDuplicatesFrom(Reverse(df), 1))

\* df.drop_duplicates(subset=['award_id'], keep='first')
DropDuplicates(df) == DropDuplicatesFrom(df, 1)

\* step 1, lines 625-630
DropEmptyRecipients(df) ==
    LET NotBlank(r) == Strip(r.recipient_name) # "" IN SelectSeq(df, NotBlank)

\* step 2, lines 632-643
DropZeroUnknown(df) ==
    LET negative_count == Cardinality({ k \in 1 .. Len(df) : df[k].award_amount < 0 })
        Kept(r) == ~(r.award_amount = 0 /\ ContainsUnknown(r.recipient_name))
    IN IF negative_count > 0 THEN SelectSeq(df, Kept) ELSE df

\* faulty variant: duplicates are counted but not removed
Deduplicate_KeepAll(df) == {df}

\* step 3, lines 645-659: the possible results
Deduplicate(df) ==
    IF DuplicateCount(df) > 0
    THEN { DropDuplicates(sorted) : sorted \in SortValuesDesc(df) }
    ELSE {df}

\* lines 615-683: the possible results (steps 4 and 5 close it)
CleanDataframe(df) ==
    IF df = <<>> THEN {df}
    ELSE UNION { SortValuesDesc(deduped) :
                   deduped \in Deduplicate(DropZeroUnknown(DropEmptyRecipients(df))) }

\* line 780: 1e12 dollars.  TLC integers end at 2^31, so the amounts of the
\* model count thousands of dollars.
very_large_amount == 1000000000

\* lines 751-754
required_columns ==
    {"award_id", "recipient_name", "award_amount", "awarding_agency", "fetched_at"}

\* the issue counts of lines 769-792, and critical_issues of line 801
IssueCounts(df) ==
    LET Count(S) == Cardinality(S)
        rows == 1 .. Len(df)
    IN [empty_recipients |-> Count({ k \in rows : Strip(df[k].recipient_name) = "" }),
        invalid_amounts |-> Count({ k \in rows : df[k].award_amount <= 0 }),
        very_large_amounts |->
            Count({ k \in rows : df[k].award_amount > very_large_amount }),
        empty_agencies |-> Count({ k \in rows : Strip(df[k].awarding_agency) = "" }),
        duplicate_ids |-> DuplicateCount(df)]

\* faulty variant: every issue counts as critical
CriticalIssues_AllIssues(counts) ==
    counts.empty_recipients + counts.invalid_amounts + counts.very_large_amounts
        + counts.empty_agencies + counts.duplicate_ids

\* line 801
CriticalIssues(counts) == counts.empty_recipients + counts.duplicate_ids

\* lines 742-810; `critical_issues > total_records * 0.1` in exact arithmetic,
\* which agrees with the float comparison for every row count
ValidateProcessedData(df) ==
    IF df = <<>> THEN FALSE
    ELSE IF ~(required_columns \subseteq DOMAIN df[1]) THEN FALSE
    ELSE LET counts == IssueCounts(df)
             issues == { c \in DOMAIN counts : counts[c] > 0 }
         IN IF issues # {}
            THEN ~(CriticalIssues(counts) * 10 > Len(df))
            ELSE TRUE

(***************************************************************************)
(* process_to_dataframe as one step on a raw result list                  *)
(***************************************************************************)
Item(id, name, amount, agency) ==
    [is_dict |-> TRUE,
     fields |-> [f \in RawFields |->
                    CASE f = "Award ID" -> id
                      [] f = "Recipient Name" -> name
                      [] f = "Award Amount" -> amount
                      [] f = "Awarding Agency" -> agency
                      [] OTHER -> Missing]]

\* a well-formed record with one more field set
ItemWith(field_name, value) ==
    [is_dict |-> TRUE,
     fields |-> [Item(Str("X1"), Str("Acme"), Num(500), Str("DoD")).fields
                     EXCEPT ![field_name] = value]]

NotADict == [is_dict |-> FALSE, fields |-> [f \in RawFields |-> Missing]]

RawIds ==
    {Missing, Null, Str(""), Str(" "), Str("X1"), Str(" X1 "), Str("X2"),
     Str("UNKNOWN_ID_1"), Str("UNKNOWN_ID_2"), Str("Unknown Recipient"), Num(7),
     Num(0)}

RawNames ==
    {Missing, Null, Str(""), Str(" "), Str("Acme"), Str(" Acme "),
     Str("Unknown Recipient"), Str("Unknown Corp"), Str("UNKNOWN_ID_1"), Str("None")}

RawAmounts ==
    {Missing, Null, Str(""), Str("null"), Str("abc"), Str("500"), Str(" 900 "),
     Num(0), Num(-5), Num(500), Num(900)}

\* raw records: each field varied against well-formed others, and the id / name /
\* amount combinations the cleaner tells apart
RawItems ==
    {NotADict}
      \cup { ItemWith(f, amount) :
               f \in MonetaryFields \ {"Award Amount"},
               amount \in {Str("abc"), Num(-5)} }
      \cup { Item(id, Str("Acme"), Num(500), Str("DoD")) : id \in RawIds }
      \cup { Item(Str("X1"), name, Num(500), Str("DoD")) : name \in RawNames }
      \cup { Item(Str("X2"), Str("Acme"), amount, Str("DoD")) : amount \in RawAmounts }
      \cup { Item(id, name, amount, Missing) :
               id \in {Str("X1"), Missing},
               name \in {Str("Unknown Corp"), Str("")},
               amount \in {Num(0), Num(-5), Num(900)} }

RawResults == UNION { [1 .. n -> RawItems] : n \in 0 .. MaxRecords }

InitProcess ==
    /\ pc = "process"
    /\ FetchIdle /\ ValidateIdle /\ LaterIdle
    /\ data \in RawResults
    /\ returned_df = <<>> /\ records = <<>>
    /\ field_errors = <<>> /\ error_count = 0

\* lines 444-611
ProcessToDataframe ==
    /\ pc = "process"
    /\ IF data = <<>>
       THEN /\ returned_df' = <<>>                     \* "Results list is empty"
            /\ UNCHANGED <<records, field_errors, error_count, cleaned_df, gate_df,
                           gate_result>>
       ELSE /\ records' = ExtractRecords(data)
            /\ error_count' = Len(data) - Len(ExtractRecords(data))
            /\ field_errors' = FieldErrors(data)
            /\ IF ExtractRecords(data) = <<>>
               THEN /\ returned_df' = <<>>             \* "No valid records"
                    /\ UNCHANGED <<cleaned_df, gate_df, gate_result>>
               ELSE \E cleaned \in CleanDataframe(ExtractRecords(data)) :
                       /\ cleaned_df' = cleaned
                       /\ gate_df' = cleaned
                       /\ gate_result' = IF ValidateProcessedData(cleaned)
                                         THEN "accepted" ELSE "rejected"
                       /\ returned_df' = IF ValidateProcessedData(cleaned)
                                         THEN cleaned ELSE <<>>
    /\ pc' = "processed"
    /\ UNCHANGED <<data, clean_df, recleaned_df, fetchVars, validateVars,
                   extractVars, mainVars>>

NextProcess == ProcessToDataframe

SpecProcess == InitProcess /\ [][NextProcess]_vars

(***************************************************************************)
(* C10: every row process_to_dataframe retains has an award id and a      *)
(* recipient name that are non-empty and differ from the sentinels        *)
(* UNKNOWN_ID_<n> (n the record's position) and 'Unknown Recipient'; a    *)
(* raw record whose Award ID or Recipient Name is missing, null or empty  *)
(* is not in the returned set.                                            *)
(***************************************************************************)
Absent(value) == value \in {Missing, Null, Str("")}

C10_RetainedHaveIdentity ==
    pc = "processed" =>
        /\ \A k \in 1 .. Len(returned_df) :
              /\ returned_df[k].award_id \notin {"", UnknownId(returned_df[k].src)}
              /\ returned_df[k].recipient_name \notin {"", "Unknown Recipient"}
        /\ \A i \in 1 .. Len(data) :
              (data[i].is_dict /\ (\/ Absent(data[i].fields["Award ID"])
                                   \/ Absent(data[i].fields["Recipient Name"])))
                 => \A k \in 1 .. Len(returned_df) : returned_df[k].src # i

C10_Witness ==
    /\ pc = "processed"
    /\ Len(data) = 2
    /\ data[1].is_dict /\ data[1].fields["Recipient Name"] = Str("")
    /\ Len(returned_df) = 1 /\ returned_df[1].src = 2

(***************************************************************************)
(* safe_extract as one step: one declared field of one raw record         *)
(***************************************************************************)
RawValues == RawIds \cup RawNames \cup RawAmounts

InitExtract ==
    /\ pc = "extract"
    /\ FetchIdle /\ ValidateIdle /\ CleanIdle /\ GateIdle /\ MainIdle
    /\ data = <<>> /\ returned_df = <<>> /\ records = <<>> /\ error_count = 0
    /\ \E i \in 0 .. MaxRecords - 1 :
          \/ extract_args \in FloatCalls(i)
          \/ extract_args \in StrCalls(i)
    /\ raw_item \in [{extract_args.field_name} -> RawValues]
    /\ \/ field_errors = <<>>                       \* no failure so far
       \/ field_errors = [f \in {extract_args.field_name} |-> 1]
       \/ field_errors = [f \in {"Description"} |-> 1]
    /\ extract_result = <<>>

\* lines 482-499
SafeExtractCall ==
    /\ pc = "extract"
    /\ LET result == SafeExtract(raw_item, extract_args.field_name,
                                 extract_args.fallback, extract_args.convert_type)
       IN /\ extract_result' = result
          /\ field_errors' = IF result.error
                             THEN Tally(field_errors, extract_args.field_name)
                             ELSE field_errors
    /\ pc' = "extracted"
    /\ UNCHANGED <<raw_item, extract_args, data, returned_df, records, error_count,
                   fetchVars, validateVars, cleanVars, gateVars, mainVars>>

NextExtract == SafeExtractCall

SpecExtract == InitExtract /\ [][NextExtract]_vars

(***************************************************************************)
(* C11: for every raw record and every field with a declared fallback,    *)
(* safe_extract returns the fallback when the raw value is missing, null  *)
(* or the empty string, and no call of it raises to its caller.           *)
(***************************************************************************)
C11_FallbackWhenAbsent ==
    pc = "extracted" =>
        /\ ~extract_result.raised
        /\ Absent(raw_item[extract_args.field_name]) =>
              extract_result.value = extract_args.fallback

C11_Witness ==
    /\ pc = "extracted"
    /\ extract_args.field_name = "Award ID" /\ extract_args.i = 1
    /\ raw_item["Award ID"] = Null
    /\ extract_result = Extracted("UNKNOWN_ID_2", FALSE)

(***************************************************************************)
(* C12: when a present raw value cannot be converted to the target type   *)
(* (float() raises on it), safe_extract returns the fallback and adds     *)
(* exactly one to the tally under that field name, and the record and the *)
(* run continue: after the run the tally of each field is the number of   *)
(* records whose value failed, and a record with a failed field is kept,  *)
(* with the fallback 0 in that field, exactly when its identity fields    *)
(* qualify it.                                                            *)
(***************************************************************************)
Unconvertible(value) ==
    value.t = "str" /\ value.s \notin {"", "null"} /\ ~Float(value.s).ok

Column(field_name) ==
    CASE field_name = "Award Amount" -> "award_amount"
      [] field_name = "COVID-19 Obligations" -> "covid_19_obligations"
      [] field_name = "COVID-19 Outlays" -> "covid_19_outlays"
      [] field_name = "Infrastructure Obligations" -> "infrastructure_obligations"
      [] field_name = "Infrastructure Outlays" -> "infrastructure_outlays"

Qualifies(fields, i) ==
    /\ SafeExtract(fields, "Award ID", UnknownId(i), "str").value
          \notin {"", UnknownId(i), "Unknown Recipient"}
    /\ SafeExtract(fields, "Recipient Name", "Unknown Recipient", "str").value
          \notin {"", UnknownId(i), "Unknown Recipient"}

C12_ConversionFailureTallied ==
    (pc = "processed" /\ data # <<>>) =>
        \A f \in MonetaryFields :
            LET failures == { i \in 1 .. Len(data) :
                                data[i].is_dict /\ Unconvertible(data[i].fields[f]) }
            IN /\ failures = {} => f \notin DOMAIN field_errors
               /\ failures # {} =>
                     /\ f \in DOMAIN field_errors
                     /\ field_errors[f] = Cardinality(failures)
               /\ \A i \in failures :
                     /\ Qualifies(data[i].fields, i) <=>
                            \E k \in 1 .. Len(records) : records[k].src = i
                     /\ \A k \in 1 .. Len(records) :
                            records[k].src = i => records[k][Column(f)] = 0

C12_Witness ==
    /\ pc = "processed"
    /\ Len(data) = 2
    /\ data[1] = Item(Str("X2"), Str("Acme"), Str("abc"), Str("DoD"))
    /\ data[2] = Item(Str("X2"), Str("Acme"), Str("abc"), Str("DoD"))
    /\ field_errors = [f \in {"Award Amount"} |-> 2]
    /\ Len(records) = 2 /\ records[1].award_amount = 0

(***************************************************************************)
(* C13: every monetary field (award_amount and the COVID-19 and           *)
(* infrastructure obligations and outlays) of every row produced by       *)
(* extraction and kept by cleaning is non-negative, with zero filled in   *)
(* for missing or invalid input.                                          *)
(*                                                                         *)
(* C13_MonetaryNonNegative is the statement as claimed.  The code keeps   *)
(* negative amounts on purpose (lines 634-637, "keeping them"), so what   *)
(* holds is C13_MonetaryAsConverted: each monetary field of a retained    *)
(* row is the number the raw value converts to, negative or not, and 0    *)
(* when the raw value is missing, null, empty, 'null' or unconvertible.   *)
(***************************************************************************)
Monetary(value) ==
    IF value.t = "num" THEN value.v
    ELSE IF value.t = "str" /\ Float(value.s).ok THEN Float(value.s).v
    ELSE 0

C13_MonetaryNonNegative ==
    pc = "processed" =>
        \A k \in 1 .. Len(returned_df) : \A f \in MonetaryFields :
            returned_df[k][Column(f)] >= 0

C13_MonetaryAsConverted ==
    pc = "processed" =>
        \A k \in 1 .. Len(returned_df) : \A f \in MonetaryFields :
            returned_df[k][Column(f)] = Monetary(data[returned_df[k].src].fields[f])

C13_Witness ==
    /\ pc = "processed"
    /\ Len(returned_df) = 2
    /\ returned_df[1].award_amount = 500 /\ returned_df[1].covid_19_outlays = -5
    /\ returned_df[2].award_amount = -5
    /\ data[returned_df[2].src].fields["Award Amount"] = Num(-5)

(***************************************************************************)
(* clean_dataframe applied to bounded RecordSets, and applied again to    *)
(* its own result.  A row carries the columns the cleaner reads; src is   *)
(* the row's position in the input and stands for its other columns.      *)
(***************************************************************************)
MaxRows == 2

CleanIds == {"X1", "X2"}

CleanNames == {"Acme", "Unknown Corp", "UNKNOWN LLC", " "}

CleanAmounts == {-5, 0, 500, 900}

Row(id, name, amount, src) ==
    [award_id |-> id, recipient_name |-> name, award_amount |-> amount, src |-> src]

RecordSets ==
    UNION { { [k \in 1 .. n |-> Row(ids[k], names[k], amounts[k], k)] :
                ids \in [1 .. n -> CleanIds], names \in [1 .. n -> CleanNames],
                amounts \in [1 .. n -> CleanAmounts] } : n \in 0 .. MaxRows }

InitClean ==
    /\ pc = "clean"
    /\ FetchIdle /\ ValidateIdle /\ ProcessIdle /\ ExtractIdle /\ GateIdle /\ MainIdle
    /\ clean_df \in RecordSets
    /\ cleaned_df = <<>> /\ recleaned_df = <<>>

\* lines 615-683
CleanCall ==
    /\ pc = "clean"
    /\ cleaned_df' \in CleanDataframe(clean_df)
    /\ pc' = "cleaned"
    /\ UNCHANGED <<clean_df, recleaned_df, fetchVars, validateVars, processVars,
                   extractVars, gateVars, mainVars>>

\* lines 615-683, on the result of the first call
CleanAgain ==
    /\ pc = "cleaned"
    /\ recleaned_df' \in CleanDataframe(cleaned_df)
    /\ pc' = "recleaned"
    /\ UNCHANGED <<clean_df, cleaned_df, fetchVars, validateVars, processVars,
                   extractVars, gateVars, mainVars>>

NextClean == CleanCall \/ CleanAgain

SpecClean == InitClean /\ [][NextClean]_vars

Cleaned == pc \in {"cleaned", "recleaned"}

(***************************************************************************)
(* C14: for every input RecordSet, the output of clean_dataframe contains *)
(* no two records with the same award identifier.                         *)
(***************************************************************************)
C14_UniqueAwardIds ==
    Cleaned =>
        \A j, k \in 1 .. Len(cleaned_df) :
            cleaned_df[j].award_id = cleaned_df[k].award_id => j = k

C14_Witness ==
    /\ pc = "cleaned"
    /\ Len(clean_df) = 2
    /\ \A k \in 1 .. 2 : clean_df[k].award_id = "X1" /\ clean_df[k].recipient_name = "Acme"
    /\ Len(cleaned_df) = 1

(***************************************************************************)
(* C15: for every group of input records sharing an award identifier, the *)
(* record that survives clean_dataframe is the group's maximum-amount     *)
(* record, and when several records tie for the maximum the one that came *)
(* first in the input order survives.                                     *)
(*                                                                         *)
(* C15_FirstMaximumSurvives is the statement as claimed.  It fails for a  *)
(* group whose maximum-amount record is removed by step 1 or step 2, and  *)
(* for ties, which the unstable sort may put in either order.  What holds *)
(* is C15_MaximumOfKeptSurvives: of the records of a group that steps 1   *)
(* and 2 keep, exactly one survives and it has the greatest amount among  *)
(* them; a group of which nothing is kept has no survivor.                *)
(***************************************************************************)
Group(id) == { k \in 1 .. Len(clean_df) : clean_df[k].award_id = id }

NotBlank(k) == Strip(clean_df[k].recipient_name) # ""

\* the rows of the input that are still there when duplicates are looked for
KeptForDedup(k) ==
    /\ NotBlank(k)
    /\ ~ /\ \E n \in 1 .. Len(clean_df) : NotBlank(n) /\ clean_df[n].award_amount < 0
         /\ clean_df[k].award_amount = 0
         /\ ContainsUnknown(clean_df[k].recipient_name)

Survivors(id) == { k \in 1 .. Len(cleaned_df) : cleaned_df[k].award_id = id }

InResult(n) == \E k \in 1 .. Len(cleaned_df) : cleaned_df[k].src = n

C16_ZeroUnknownDropped ==
    Cleaned =>
        \A n \in 1 .. Len(clean_df) :
            LET row == clean_df[n] IN
            /\ (row.award_amount = 0 /\ ContainsUnknown(row.recipient_name))
                  => ~InResult(n)
            /\ (/\ row.award_amount = 0 /\ ~ContainsUnknown(row.recipient_name)
                /\ NotBlank(n) /\ Group(row.award_id) = {n})
                  => InResult(n)

(***************************************************************************)
(* C17: clean_dataframe is idempotent: for every RecordSet R,             *)
(* clean(clean(R)) equals clean(R) in both the set of records and their   *)
(* order.                                                                 *)
(*                                                                         *)
(* C17_Idempotent is the statement as claimed.  The second call sorts     *)
(* again, and rows of equal amount may change places.  What holds is      *)
(* C17_IdempotentUpToTies: the second call returns the same records, and  *)
(* the same amount at every position.                                     *)
(***************************************************************************)
Rows(df) == { df[k] : k \in 1 .. Len(df) }

keep_count == 10

NoFile == [format |-> "none", rows |-> <<>>]

\* what a write that raised, or a file that fails its integrity check, may be
Damaged == [format |-> "damaged", rows |-> <<>>]

\* df.to_csv(path, index=False): the rows in the order of df
Csv(df) == [format |-> "csv", rows |-> df]

\* json.dump of {"metadata": ..., "records": df.to_dict('records')}
Json(df) == [format |-> "json", rows |-> df]

\* faulty variant: the JSON files are written before the CSV files
SaveSteps_JsonFirst ==
    <<"storage", "json", "latest_json", "csv", "latest_csv", "backup",
      "validation", "none">>

\* the steps of save_data in order; "none": no step fails
SaveSteps ==
    <<"storage", "csv", "latest_csv", "json", "latest_json", "backup",
      "validation", "none">>

StepOf(step) == CHOOSE k \in 1 .. Len(SaveSteps) : SaveSteps[k] = step

\* the four writes of save_data, each followed by check_file_integrity
SaveWrites == {"csv", "latest_csv", "json", "latest_json"}

\* faulty variant: the sort by modification time is not reversed, the oldest stay
KeepNewest_Oldest(backups) ==
    IF Len(backups) <= keep_count THEN backups ELSE SubSeq(backups, 1, keep_count)

\* cleanup_old_backups: the newest keep_count backups stay
KeepNewest(backups) ==
    IF Len(backups) <= keep_count THEN backups
    ELSE SubSeq(backups, Len(backups) - keep_count + 1, Len(backups))

\* faulty variant: the data directory is pruned like the backups folder
AddSnapshot_Pruned(snapshots, written) == KeepNewest(snapshots \o written)

\* lines 946-971 and 1026-1029: a file written under the name of the current
\* second joins the timestamped files; save_data removes none of them
AddSnapshot(snapshots, written) == snapshots \o written

\* lines 939-1074: the data files after save_data(df) whose first failing step is
\* `fault`; the write that fails leaves a damaged file when `damaged`, and the
\* backup copies are made when `copied` (their failure is only a warning).
\* `made` is history: every backup copy made so far, oldest first.
SavedFiles(dir, df, fault, damaged, copied) ==
    LET Done(step) == StepOf(fault) > StepOf(step)
        Failed(step) == fault = step /\ damaged
        Written(step, content, old) ==
            IF Done(step) THEN content ELSE IF Failed(step) THEN Damaged ELSE old
        Snapshot(step, content) ==
            IF Done(step) THEN <<content>> ELSE IF Failed(step) THEN <<Damaged>> ELSE <<>>
        latest_csv == Written("latest_csv", Csv(df), dir.latest_csv)
        latest_json == Written("latest_json", Json(df), dir.latest_json)
    IN [latest_csv |-> latest_csv,
        latest_json |-> latest_json,
        snapshots |-> AddSnapshot(AddSnapshot(dir.snapshots, Snapshot("csv", Csv(df))),
                                  Snapshot("json", Json(df))),
        backups |-> IF Done("backup") /\ copied
                    THEN KeepNewest(dir.backups \o <<latest_csv, latest_json>>)
                    ELSE dir.backups,
        made |-> IF Done("backup") /\ copied
                 THEN dir.made \o <<latest_csv, latest_json>>
                 ELSE dir.made]

\* The ways one call of save_data(df), df not empty, can go: the first step that
\* fails and how.  "raised": the step raised (lines 991, 1050, 1071) or
\* validate_storage_environment returned False; the file being written is left
\* as it was or damaged.  "integrity": the write returned and
\* check_file_integrity then found the file empty or unreadable.  "final":
\* validate_saved_files returned False.
SaveOutcomes ==
    { [step |-> "none", kind |-> "none", damaged |-> FALSE, copied |-> c] :
        c \in BOOLEAN }
    \cup { [step |-> "storage", kind |-> "raised", damaged |-> FALSE, copied |-> FALSE] }
    \cup { [step |-> w, kind |-> "raised", damaged |-> d, copied |-> FALSE] :
             w \in SaveWrites, d \in BOOLEAN }
    \cup { [step |-> w, kind |-> "integrity", damaged |-> TRUE, copied |-> FALSE] :
             w \in SaveWrites }
    \cup { [step |-> "validation", kind |-> "final", damaged |-> FALSE, copied |-> c] :
             c \in BOOLEAN }

\* faulty variant: a latest file that fails its integrity check is only reported
SaveReturns_LatestUnchecked(step, kind) ==
    step = "none" \/ (step \in {"latest_csv", "latest_json"} /\ kind = "integrity")

\* save_data returns True at line 1066 only; every failing step returns False
SaveReturns(step, kind) == step = "none"

\* one entry of save_log
SaveEntry(df, o, before, after) ==
    [df |-> df, step |-> o.step, kind |-> o.kind,
     returned |-> SaveReturns(o.step, o.kind), before |-> before, after |-> after]

\* lines 935-937: "Cannot save empty DataFrame"
EmptyOutcome == [step |-> "empty", kind |-> "none", damaged |-> FALSE, copied |-> FALSE]

\* save_data(df), lines 933-1074
SaveDataOf(df) ==
    /\ save_calls' = Append(save_calls, df)
    /\ IF df = <<>>
       THEN /\ UNCHANGED files
            /\ save_log' = Append(save_log,
                                  [SaveEntry(df, EmptyOutcome, files, files)
                                     EXCEPT !.returned = FALSE])
       ELSE \E o \in SaveOutcomes :
               LET after == SavedFiles(files, df, o.step, o.damaged, o.copied)
               IN /\ files' = after
                  /\ save_log' = Append(save_log, SaveEntry(df, o, files, after))

\* faulty variant: main saves whatever process_to_dataframe returned
SaveAllowed_Always(df) == TRUE

\* main, lines 1452-1454: `if df.empty: ... return False`
SaveAllowed(df) == df # <<>>

EmptyDir ==
    [latest_csv |-> NoFile, latest_json |-> NoFile, snapshots |-> <<>>,
     backups |-> <<>>, made |-> <<>>]

\* the data files an earlier successful run left
EarlierRun ==
    LET old == <<[ExtractRecord(Item(Str("X0"), Str("Old Co"), Num(7), Str("DoD")).fields, 0)
                     EXCEPT !.src = 0]>>
    IN SavedFiles(EmptyDir, old, "none", FALSE, TRUE)

\* raw records of a fetched response
MainItems ==
    {NotADict,
     Item(Str("X1"), Str("Acme"), Num(500), Str("DoD")),
     Item(Str("X1"), Str("Acme"), Num(900), Str("DoD")),
     Item(Str("X2"), Str("Acme"), Num(500), Str("DoD")),
     Item(Str("X2"), Str("Acme"), Num(-5), Str("DoD")),
     Item(Str("X2"), Str("Unknown Corp"), Num(0), Str("DoD")),
     Item(Str("X1"), Str("Acme"), Str("abc"), Missing),
     Item(Missing, Str("Acme"), Num(900), Str("DoD"))}

\* a fetch that returns a response has accumulated at least one record
MainResults == UNION { [1 .. n -> MainItems] : n \in 1 .. MaxRecords }

InitMain ==
    /\ pc = "main"
    /\ FetchIdle /\ ValidateIdle /\ ProcessIdle /\ ExtractIdle /\ CleanIdle /\ GateIdle
    /\ files \in {EmptyDir, EarlierRun}
    /\ files_before = files
    /\ save_calls = <<>>
    /\ run_result = "none"
    /\ selected_group = "contracts"
    /\ save_log = <<>>
    /\ loaded_df = <<>> /\ loaded_from = "none"

\* main, lines 1421-1429: the fetch of 'contracts' returned nothing; main fetches
\* 'grants' instead
MainTryGrants ==
    /\ pc = "main" /\ selected_group = "contracts"
    /\ selected_group' = "grants"
    /\ UNCHANGED <<pc, files, files_before, save_calls, run_result, save_log,
                   reloadVars, fetchVars, validateVars, processVars, extractVars, cleanVars,
                   gateVars>>

\* main, lines 1431-1433: the fetch of 'grants' returned nothing either
MainNoData ==
    /\ pc = "main" /\ selected_group = "grants"
    /\ run_result' = "failure"
    /\ pc' = "done"
    /\ UNCHANGED <<files, files_before, save_calls, selected_group, save_log,
                   reloadVars, fetchVars, validateVars, processVars, extractVars, cleanVars,
                   gateVars>>

\* main, lines 1409-1446: a response was fetched and is handed to
\* process_to_dataframe
MainFetched ==
    /\ pc = "main"
    /\ data' \in MainResults
    /\ pc' = "process"
    /\ UNCHANGED <<returned_df, records, field_errors, error_count, mainVars,
                   fetchVars, validateVars, extractVars, cleanVars, gateVars>>

\* main, lines 1448-1461
MainProcessed ==
    /\ pc = "processed"
    /\ IF SaveAllowed(returned_df)
       THEN pc' = "save" /\ UNCHANGED run_result
       ELSE pc' = "done" /\ run_result' = "failure"
    /\ UNCHANGED <<files, files_before, save_calls, selected_group, save_log,
                   reloadVars, fetchVars, validateVars, processVars, extractVars, cleanVars,
                   gateVars>>

\* faulty variant: main does not look at what save_data returned
RunResult_IgnoreSave(save_success) == "success"

\* main, lines 1470-1474 and 1507
RunResult(save_success) == IF save_success THEN "success" ELSE "failure"

\* main, lines 1467-1478, with save_data, lines 933-1074
SaveData ==
    /\ pc = "save"
    /\ SaveDataOf(returned_df)
    /\ run_result' = RunResult(save_log'[Len(save_log')].returned)
    /\ pc' = "done"
    /\ UNCHANGED <<files_before, selected_group, reloadVars, fetchVars, validateVars,
                   processVars, extractVars, cleanVars, gateVars>>

NextMain ==
    \/ MainTryGrants \/ MainNoData \/ MainFetched \/ ProcessToDataframe
    \/ MainProcessed \/ SaveData

SpecMain == InitMain /\ [][NextMain]_vars

(***************************************************************************)
(* C18: the output of clean_dataframe is ordered by award amount          *)
(* descending: of every two adjacent output records the earlier one's     *)
(* amount is greater than or equal to the later one's; and this is the    *)
(* order that save persists: the files of a successful save hold the rows *)
(* in that order.                                                         *)
(***************************************************************************)
Descending(df) ==
    \A k \in 1 .. Len(df) - 1 : df[k].award_amount >= df[k + 1].award_amount

C18_DescendingAndPersisted ==
    /\ gate_result # "none" => Descending(cleaned_df)
    /\ run_result = "success" =>
          /\ files.latest_csv = Csv(cleaned_df)
          /\ files.latest_json = Json(cleaned_df)
          /\ Len(files.snapshots) >= 2
          /\ files.snapshots[Len(files.snapshots) - 1] = Csv(cleaned_df)
          /\ files.snapshots[Len(files.snapshots)] = Json(cleaned_df)

C18_Witness ==
    /\ pc = "done" /\ run_result = "success"
    /\ Len(data) = 2
    /\ data[1].fields["Award Amount"] = Num(-5)
    /\ data[2].fields["Award Amount"] = Num(900)
    /\ Len(files.latest_csv.rows) = 2
    /\ files.latest_csv.rows[1].award_amount = 900
    /\ files.latest_csv.rows[2].award_amount = -5

(***************************************************************************)
(* validate_processed_data applied to RecordSets of up to MaxGateRows     *)
(* rows, built from the number of rows with each kind of issue            *)
(***************************************************************************)
MaxGateRows == 20

MaxIssueRows == 4

\* n rows; the first `blank` have a blank recipient name, the last `dups` repeat
\* the id of row 1, the first `nonpositive` have amount 0 or -5, the last `large`
\* an amount above 1e12, the first `noagency` a blank agency; rows lack the
\* columns in `dropped`
GateDf(n, blank, dups, nonpositive, large, noagency, dropped) ==
    [k \in 1 .. n |->
        LET row ==
              [award_id |-> IF k > 1 /\ k > n - dups THEN "R1" ELSE "R" \o ToString(k),
               recipient_name |-> IF k <= blank THEN " " ELSE "Acme",
               award_amount |-> IF k <= nonpositive THEN (IF k = 1 THEN 0 ELSE -5)
                                ELSE IF k > n - large THEN 2 * very_large_amount
                                ELSE 500,
               awarding_agency |-> IF k <= noagency THEN "" ELSE "DoD",
               fetched_at |-> "now",
               src |-> k]
        IN [c \in DOMAIN row \ dropped |-> row[c]]]

GateInputs ==
    { GateDf(n, blank, dups, nonpositive, large, noagency, dropped) :
        n \in 0 .. MaxGateRows, blank \in 0 .. MaxIssueRows, dups \in 0 .. MaxIssueRows,
        nonpositive \in 0 .. 2, large \in 0 .. 1, noagency \in 0 .. 2,
        dropped \in {{}, {"awarding_agency"}} }

InitGate ==
    /\ pc = "gate"
    /\ FetchIdle /\ ValidateIdle /\ ProcessIdle /\ ExtractIdle /\ CleanIdle /\ MainIdle
    /\ gate_df \in GateInputs
    /\ gate_result = "none"

\* lines 742-810
ValidateProcessedDataCall ==
    /\ pc = "gate"
    /\ gate_result' = IF ValidateProcessedData(gate_df) THEN "accepted" ELSE "rejected"
    /\ pc' = "gated"
    /\ UNCHANGED <<gate_df, fetchVars, validateVars, processVars, extractVars,
                   cleanVars, mainVars>>

NextGate == ValidateProcessedDataCall

SpecGate == InitGate /\ [][NextGate]_vars

(***************************************************************************)
(* C19: for a non-empty RecordSet that has all required columns,          *)
(* validate_processed_data rejects if and only if the number of rows with *)
(* a blank recipient name plus the number of duplicate award ids exceeds  *)
(* 10% of the row count; rows with non-positive amounts, amounts above    *)
(* 1e12 or blank agencies never cause a rejection.  In particular a set   *)
(* with 15% blank recipient names is rejected.                            *)
(***************************************************************************)
BlankNames(df) ==
    Cardinality({ k \in 1 .. Len(df) : df[k].recipient_name \in {"", " "} })

DuplicateIds(df) ==
    Cardinality({ k \in 1 .. Len(df) :
                    \E j \in 1 .. k - 1 : df[j].award_id = df[k].award_id })

C19_RejectsIffCriticalOverTenPercent ==
    (/\ pc = "gated" /\ gate_df # <<>>
     /\ required_columns \subseteq DOMAIN gate_df[1])
        => (gate_result = "rejected" <=>
               10 * (BlankNames(gate_df) + DuplicateIds(gate_df)) > Len(gate_df))

C19_Witness ==
    /\ pc = "gated"
    /\ Len(gate_df) = 20
    /\ BlankNames(gate_df) = 3 /\ DuplicateIds(gate_df) = 0
    /\ required_columns \subseteq DOMAIN gate_df[1]
    /\ \A k \in 1 .. 20 : gate_df[k].award_amount = 500 /\ gate_df[k].awarding_agency = "DoD"
    /\ gate_result = "rejected"

(***************************************************************************)
(* C20: if the quality gate rejects the batch, the run reports failure    *)
(* and save is never invoked for it: no latest, timestamped or backup     *)
(* file is created or changed by that run.  Save only ever runs on a      *)
(* RecordSet the gate accepted.                                           *)
(*                                                                         *)
(* Stated for every run that ends without an accepted RecordSet (the gate *)
(* rejected it, or was not reached): such a run reports failure, has not  *)
(* called save_data, and leaves the data files as they were; and every    *)
(* call of save_data has the RecordSet the gate accepted as its argument. *)
(***************************************************************************)
C20_SaveOnlyAccepted ==
    /\ (pc = "done" /\ gate_result # "accepted") =>
          /\ run_result = "failure"
          /\ save_calls = <<>>
          /\ files = files_before
    /\ \A k \in 1 .. Len(save_calls) :
          gate_result = "accepted" /\ save_calls[k] = gate_df /\ gate_df # <<>>

C20_Witness ==
    /\ pc = "done" /\ run_result = "success"
    /\ gate_result = "accepted"
    /\ save_calls = <<gate_df>>
    /\ files # files_before

\* In a run the gate is only given what clean_dataframe returned, which has no
\* blank name and no duplicate id: the branch of lines 602-604 is never taken.
GateNeverRejectsInRun == gate_result # "rejected"


(***************************************************************************)
(* C21: the run (main) reports failure to its caller exactly in the       *)
(* whole-run failure cases: zero records fetched for the selected         *)
(* category, quality-gate rejection, or a save failure; per-page and      *)
(* per-record failures alone never make the run fail, and a run with zero *)
(* records fetched never reports success.                                 *)
(*                                                                         *)
(* `data` is what the fetch handed to main (empty: nothing fetched); the  *)
(* pages of the fetch are the subject of Spec, where a failed page does   *)
(* not fail the fetch.                                                    *)
(***************************************************************************)
LastSave == save_log[Len(save_log)]

SaveFailed == save_log # <<>> /\ LastSave.step # "none"

C21_WitnessAllDropped ==
    /\ pc = "done" /\ run_result = "failure"
    /\ data # <<>> /\ error_count = Len(data)
    /\ gate_result = "none" /\ save_log = <<>>


(***************************************************************************)
(* save_data called again and again on one data directory: up to MaxSaves *)
(* calls, each going any of the ways of SaveOutcomes, on the directory    *)
(* that up to MaxEarlierSaves earlier successful calls have left.         *)
(***************************************************************************)
MaxSaves == 2

MaxEarlierSaves == 11

\* the RecordSet of the n-th earlier call
OldDf(n) == <<Row("X0", "Old Co", n, 0)>>

RECURSIVE AfterSaves(_)
\* the data directory after n successful calls of save_data
AfterSaves(n) ==
    IF n = 0 THEN EmptyDir
    ELSE SavedFiles(AfterSaves(n - 1), OldDf(n), "none", FALSE, TRUE)

\* the arguments of the calls
SaveInputs ==
    { <<>>,
      <<Row("X1", "Acme", 900, 1)>>,
      <<Row("X2", "Acme", 500, 1), Row("X1", "None", -5, 2)>> }

InitSave ==
    /\ pc = "saves"
    /\ FetchIdle /\ ValidateIdle /\ ProcessIdle /\ ExtractIdle /\ CleanIdle /\ GateIdle
    /\ files \in { AfterSaves(n) : n \in 0 .. MaxEarlierSaves }
    /\ files_before = files
    /\ save_calls = <<>>
    /\ run_result = "none"
    /\ selected_group = "none"
    /\ save_log = <<>>
    /\ loaded_df = <<>> /\ loaded_from = "none"

\* collector.save_data(df), lines 933-1074
SaveDataCall ==
    /\ pc = "saves"
    /\ Len(save_log) < MaxSaves
    /\ \E df \in SaveInputs : SaveDataOf(df)
    /\ UNCHANGED <<pc, files_before, run_result, selected_group, reloadVars, fetchVars,
                   validateVars, processVars, extractVars, cleanVars, gateVars>>

NextSave == SaveDataCall

SpecSave == InitSave /\ [][NextSave]_vars

\* check_file_integrity, lines 1277-1304: the file exists, is not empty, parses
\* and holds data
CheckFileIntegrity(file) == file.format \in {"csv", "json"} /\ file.rows # <<>>

\* the file a step of save_data writes, as a call left it
WrittenBy(step, after) ==
    CASE step = "csv" -> after.snapshots[Len(after.snapshots)]
      [] step = "json" -> after.snapshots[Len(after.snapshots)]
      [] step = "latest_csv" -> after.latest_csv
      [] step = "latest_json" -> after.latest_json

(***************************************************************************)
(* C22: if any integrity check in save_data fails (the re-read of a       *)
(* just-written CSV or JSON file, timestamped or latest, finds it         *)
(* missing, empty or unparsable), save_data returns failure, even though  *)
(* the write call itself did not raise; save_data returns success only if *)
(* every integrity check of every written format passed.                  *)
(***************************************************************************)
C22_IntegrityFailureFailsSave ==
    \A k \in 1 .. Len(save_log) :
        LET call == save_log[k]
            n == Len(call.after.snapshots)
        IN /\ call.kind = "integrity" =>
                 /\ ~CheckFileIntegrity(WrittenBy(call.step, call.after))
                 /\ ~call.returned
           /\ call.returned =>
                 /\ call.kind = "none"
                 /\ n >= 2
                 /\ CheckFileIntegrity(call.after.snapshots[n - 1])
                 /\ CheckFileIntegrity(call.after.snapshots[n])
                 /\ CheckFileIntegrity(call.after.latest_csv)
                 /\ CheckFileIntegrity(call.after.latest_json)

\* the second call wrote three good files and a latest JSON that does not parse
C22_Witness ==
    /\ Len(save_log) = 2
    /\ save_log[1].returned
    /\ save_log[2].step = "latest_json" /\ save_log[2].kind = "integrity"
    /\ ~save_log[2].returned
    /\ files.latest_csv = Csv(save_log[2].df)
    /\ files.latest_json = Damaged


(***************************************************************************)
(* C23: when a format's integrity check fails during save_data, that      *)
(* write is not promoted: the 'latest' file of that format does not hold  *)
(* the failing write's content (it is as it was before the call), and no  *)
(* backup copy is made in that save call, because the abort happens       *)
(* before backup rotation.                                                *)
(***************************************************************************)
LatestOf(step, dir) ==
    IF step \in {"csv", "latest_csv"} THEN dir.latest_csv ELSE dir.latest_json

C23_FailedWriteNotPromoted ==
    \A k \in 1 .. Len(save_log) :
        LET call == save_log[k]
        IN call.kind = "integrity" =>
              /\ LatestOf(call.step, call.after) = LatestOf(call.step, call.before)
              /\ call.after.backups = call.before.backups
              /\ call.after.made = call.before.made

\* the part of it that holds: a call whose integrity check failed made no backup
C23_NoBackupAfterFailedCheck ==
    \A k \in 1 .. Len(save_log) :
        save_log[k].kind = "integrity" =>
            /\ save_log[k].after.backups = save_log[k].before.backups
            /\ save_log[k].after.made = save_log[k].before.made


(***************************************************************************)
(* C24: after any sequence of saves, the backups folder holds for each    *)
(* file type (CSV, JSON) the 10 most recent backup files of that type, or *)
(* all of them when fewer than 10 of that type were made; older backups   *)
(* are removed.                                                           *)
(***************************************************************************)
LastN(s, n) == IF Len(s) <= n THEN s ELSE SubSeq(s, Len(s) - n + 1, Len(s))

OfType(s, format) == SelectSeq(s, LAMBDA file : file.format = format)

\* the claim as stated: 10 per type
C24_TenNewestPerType ==
    save_log # <<>> =>
        \A format \in {"csv", "json"} :
            OfType(files.backups, format) = LastN(OfType(files.made, format), keep_count)

\* what holds: cleanup_old_backups keeps the 10 newest files of the folder,
\* whatever their type
C24_TenNewestOverall ==
    /\ files.backups = LastN(files.made, keep_count)
    /\ \A k \in 1 .. Len(save_log) :
          (save_log[k].after.made # save_log[k].before.made) =>
              /\ Len(save_log[k].after.backups) >= 2
              /\ LastN(save_log[k].after.backups, 2)
                    = <<Csv(save_log[k].df), Json(save_log[k].df)>>

\* after eight saves the folder holds the backups of the last five
C24_Witness ==
    /\ Len(save_log) = 2 /\ save_log[1].returned /\ save_log[2].returned
    /\ Len(files.made) = 16
    /\ Len(OfType(files.backups, "csv")) = 5
    /\ Len(OfType(files.backups, "json")) = 5
    /\ files.backups[1] = Csv(OldDf(4))
    /\ files.backups[10] = Json(save_log[2].df)


(***************************************************************************)
(* C25: every successful save overwrites the 'latest' snapshot and adds   *)
(* one timestamped snapshot, and after any sequence of successful saves   *)
(* at most 10 timestamped snapshots per format remain in the data         *)
(* directory, older ones being pruned.                                    *)
(***************************************************************************)
IsPrefix(s, t) == Len(s) <= Len(t) /\ SubSeq(t, 1, Len(s)) = s

AddsSnapshots ==
    \A k \in 1 .. Len(save_log) :
        LET call == save_log[k]
        IN call.returned =>
              /\ call.after.latest_csv = Csv(call.df)
              /\ call.after.latest_json = Json(call.df)
              /\ call.after.snapshots
                    = call.before.snapshots \o <<Csv(call.df), Json(call.df)>>

\* the claim as stated
C25_AtMostTenSnapshots ==
    /\ AddsSnapshots
    /\ save_log # <<>> =>
          \A format \in {"csv", "json"} :
              Len(OfType(files.snapshots, format)) <= keep_count

\* what holds: no call of save_data removes a timestamped snapshot
C25_SnapshotsNeverPruned ==
    /\ AddsSnapshots
    /\ \A k \in 1 .. Len(save_log) :
          IsPrefix(save_log[k].before.snapshots, save_log[k].after.snapshots)
    /\ save_log # <<>> => IsPrefix(save_log[1].before.snapshots, files.snapshots)

\* the twelfth successful save: twelve snapshots of each format remain
C25_Witness ==
    /\ Len(save_log) = 1 /\ save_log[1].returned
    /\ Len(OfType(files.snapshots, "csv")) = 12
    /\ Len(OfType(files.snapshots, "json")) = 12
    /\ files.snapshots[1] = Csv(OldDf(1))
    /\ files.snapshots[24] = Json(save_log[1].df)
    /\ files.latest_csv = Csv(save_log[1].df)


(***************************************************************************)
(* C29: a save_data call that returns failure leaves both 'latest' files  *)
(* (CSV and JSON) with the content they had before the call; only a save  *)
(* that returns success changes what the latest files hold, so both       *)
(* latest files always hold the RecordSet of the most recent successful   *)
(* save.                                                                  *)
(***************************************************************************)
\* the claim as stated
C29_FailedSaveKeepsLatest ==
    \A k \in 1 .. Len(save_log) :
        LET call == save_log[k]
        IN ~call.returned =>
              /\ call.after.latest_csv = call.before.latest_csv
              /\ call.after.latest_json = call.before.latest_json

\* what holds: a failing call leaves a latest file as it was only when it failed
\* before that file's write; the writes before the failing step stand
C29_LatestFollowsWrites ==
    \A k \in 1 .. Len(save_log) :
        LET call == save_log[k]
        IN /\ call.step \in {"empty", "storage", "csv"} =>
                 /\ ~call.returned
                 /\ call.after.latest_csv = call.before.latest_csv
                 /\ call.after.latest_json = call.before.latest_json
           /\ call.step \in {"latest_csv", "json"} =>
                 /\ ~call.returned
                 /\ call.after.latest_json = call.before.latest_json
           /\ call.step = "latest_csv" =>
                 call.after.latest_csv \in {call.before.latest_csv, Damaged}
           /\ call.step \in {"json", "latest_json", "validation"} =>
                 /\ ~call.returned
                 /\ call.after.latest_csv = Csv(call.df)
           /\ call.step = "latest_json" =>
                 call.after.latest_json \in {call.before.latest_json, Damaged}
           /\ call.step \in {"validation", "none"} =>
                 /\ call.after.latest_csv = Csv(call.df)
                 /\ call.after.latest_json = Json(call.df)
           /\ call.returned <=> call.step = "none"

\* a call that failed while writing the timestamped JSON: the latest CSV holds
\* its RecordSet, the latest JSON that of the last successful save
C29_Witness ==
    /\ Len(save_log) = 1
    /\ save_log[1].step = "json" /\ ~save_log[1].returned
    /\ save_log[1].df # <<>>
    /\ files.latest_csv = Csv(save_log[1].df)
    /\ files.latest_json = Json(OldDf(3))
    /\ files_before.latest_csv = Csv(OldDf(3))


(***************************************************************************)
(* The dashboard's load_data (src/dashboard.py) on the data directory the *)
(* collector has saved to.  A cell read as missing is NaN.                *)
(***************************************************************************)
NaN == "<NaN>"

\* data_collector.py line 956: the name save_data writes the latest CSV under
latest_csv_written == "spending_data_useful_latest.csv"

\* dashboard.py line 1202: the name load_from_latest_csv opens
latest_csv_read == "spending_data_latest.csv"

\* the file of the data directory with this name
FileNamed(dir, name) == IF name = latest_csv_written THEN dir.latest_csv ELSE NoFile

\* dashboard.py line 1216, and the tokens pandas reads as missing by default
NaValues == {"", "nan", "NaN", "null", "NULL", "None"} \cup {"NA", "N/A", "n/a", "<NA>"}

\* pd.read_csv(path, na_values=[...]): the rows of the file, cells that hold a
\* missing-value token read as NaN
ReadCsv(file) ==
    [k \in 1 .. Len(file.rows) |->
        [file.rows[k] EXCEPT
            !.award_id = IF @ \in NaValues THEN NaN ELSE @,
            !.recipient_name = IF @ \in NaValues THEN NaN ELSE @,
            !.awarding_agency = IF @ \in NaValues THEN NaN ELSE @]]

\* convert_data_types, lines 1440-1484 (amounts are numbers already); text
\* columns: astype(str).str.strip(), then replace(['nan', 'None', ''], 'Unknown')
ConvertDataTypes(df) ==
    LET Text(value) == IF value = NaN THEN "nan" ELSE Strip(value)
        AsCleanString(value) ==
            IF Text(value) \in {"nan", "None", ""} THEN "Unknown" ELSE Text(value)
    IN [k \in 1 .. Len(df) |->
          [df[k] EXCEPT !.recipient_name = AsCleanString(@),
                        !.awarding_agency = AsCleanString(@)]]

\* remove_duplicates, lines 1685-1697: drop_duplicates(subset=['award_id'],
\* keep='first')
RemoveDuplicates(df) ==
    SelectSeq(df, LAMBDA row :
        \A k \in 1 .. Len(df) :
            (df[k].award_id = row.award_id /\ df[k].src # row.src) =>
                \E j \in 1 .. Len(df) : j < k /\ df[j] = row)

\* clean_text_fields, lines 1699-1723; unknown_patterns are compared in lower
\* case (line 1712), so every spelling of them matches
CleanTextFields(df) ==
    LET UnknownPatterns ==
            {"unknown", "Unknown", "UNKNOWN", "n/a", "N/A", "na", "NA", "null",
             "NULL", "none", "None", "NONE", ""}
    IN
    [k \in 1 .. Len(df) |->
        [df[k] EXCEPT
            !.recipient_name =
                IF Strip(@) \in UnknownPatterns THEN "Unknown Recipient" ELSE Strip(@),
            !.awarding_agency =
                IF Strip(@) \in UnknownPatterns THEN "Unknown Agency" ELSE Strip(@)]]

\* validate_data_ranges, lines 1725-1755: rows with a negative amount or an
\* empty award id are removed
ValidateDataRanges(df) ==
    SelectSeq(df, LAMBDA row :
        row.award_amount >= 0 /\ row.award_id \notin {NaN, "nan", ""})

NotLoaded == [ok |-> FALSE, df |-> <<>>]

\* validate_and_clean_dataframe, lines 1378-1438 (handle_missing_values finds
\* no missing name or amount after convert_data_types)
ValidateAndCleanDataframe(df) ==
    IF df = <<>> THEN NotLoaded
    ELSE LET cleaned ==
               ValidateDataRanges(CleanTextFields(RemoveDuplicates(df)))
         IN IF cleaned = <<>> THEN NotLoaded ELSE [ok |-> TRUE, df |-> cleaned]

\* read_csv, convert_data_types, validate_and_clean_dataframe: lines 1212-1222
LoadCsv(file) ==
    IF file.format # "csv" THEN NotLoaded
    ELSE ValidateAndCleanDataframe(ConvertDataTypes(ReadCsv(file)))

\* load_from_latest_csv, lines 1200-1237
LoadFromLatestCsv(dir) == LoadCsv(FileNamed(dir, latest_csv_read))

\* load_from_timestamped_files, lines 1239-1293: the three newest files named
\* spending_data_*.csv without 'latest', newest first
LoadFromTimestampedFiles(dir) ==
    LET found == SelectSeq(dir.snapshots, LAMBDA file : file.format = "csv")
        tried == { k \in 1 .. Len(found) : k > Len(found) - 3 }
        good == { k \in tried : LoadCsv(found[k]).ok }
    IN IF good = {} THEN NotLoaded
       ELSE LoadCsv(found[CHOOSE k \in good : \A j \in good : j <= k])

\* load_from_json_files, lines 1295-1327
LoadFromJsonFiles(dir) ==
    LET latest_json == FileNamed(dir, "spending_data_latest.json")
    IN IF latest_json = NoFile THEN NotLoaded
       ELSE [ok |-> TRUE, df |-> latest_json.rows]

\* load_from_any_csv, lines 1329-1376: the CSV files in the order of
\* os.listdir, which is arbitrary; the possible outcomes
LoadFromAnyCsv(dir) ==
    LET found == {dir.latest_csv}
                     \cup { dir.snapshots[k] : k \in 1 .. Len(dir.snapshots) }
        good == { LoadCsv(file) : file \in { f \in found : LoadCsv(f).ok } }
    IN IF good = {} THEN {NotLoaded} ELSE good

\* RecordSets of up to MaxRows rows that pass validate_processed_data
ReloadInputs ==
    LET ReloadRows ==
            { [award_id |-> id, recipient_name |-> name, award_amount |-> amount,
               awarding_agency |-> "DoD", fetched_at |-> "now", src |-> k] :
                id \in CleanIds, name \in {"Acme", "None", "null", "NA"},
                amount \in {-5, 500}, k \in 1 .. MaxRows }
    IN { df \in UNION { [1 .. n -> ReloadRows] : n \in 1 .. MaxRows } :
           /\ \A k \in 1 .. Len(df) : df[k].src = k
           /\ ValidateProcessedData(df) }

InitReload ==
    /\ pc = "to_save"
    /\ FetchIdle /\ ValidateIdle /\ ProcessIdle /\ ExtractIdle /\ CleanIdle /\ GateIdle
    /\ files \in {EmptyDir, AfterSaves(1)}
    /\ files_before = files
    /\ save_calls = <<>>
    /\ run_result = "none"
    /\ selected_group = "none"
    /\ save_log = <<>>
    /\ loaded_df = <<>> /\ loaded_from = "none"

\* collector.save_data(R)
SaveForReload ==
    /\ pc = "to_save"
    /\ \E df \in ReloadInputs : SaveDataOf(df)
    /\ pc' = "saved"
    /\ UNCHANGED <<files_before, run_result, selected_group, reloadVars, fetchVars,
                   validateVars, processVars, extractVars, cleanVars, gateVars>>

\* dashboard.load_data(), lines 1166-1198
LoadData ==
    /\ pc = "saved"
    /\ \E any \in LoadFromAnyCsv(files) :
          LET first == LoadFromLatestCsv(files)
              second == LoadFromTimestampedFiles(files)
              third == LoadFromJsonFiles(files)
          IN CASE first.ok -> loaded_df' = first.df /\ loaded_from' = "latest_csv"
               [] ~first.ok /\ second.ok ->
                     loaded_df' = second.df /\ loaded_from' = "timestamped"
               [] ~first.ok /\ ~second.ok /\ third.ok ->
                     loaded_df' = third.df /\ loaded_from' = "json"
               [] ~first.ok /\ ~second.ok /\ ~third.ok /\ any.ok ->
                     loaded_df' = any.df /\ loaded_from' = "any_csv"
               [] OTHER -> loaded_df' = <<>> /\ loaded_from' = "none"
    /\ pc' = "reloaded"
    /\ UNCHANGED <<files, files_before, save_calls, run_result, selected_group,
                   save_log, fetchVars, validateVars, processVars, extractVars,
                   cleanVars, gateVars>>

NextReload == SaveForReload \/ LoadData

SpecReload == InitReload /\ [][NextReload]_vars

(***************************************************************************)
(* C26: round trip: after a successful save of RecordSet R, reloading the *)
(* 'latest' flat-row file yields a table with the same number of rows as  *)
(* R and, row by row, the same award id, recipient name and award amount, *)
(* for every R that passed the quality gate (including names that are     *)
(* NA-like tokens such as 'None', 'null' or 'NA').                        *)
(***************************************************************************)
SameRows(df, loaded) ==
    /\ Len(loaded) = Len(df)
    /\ \A k \in 1 .. Len(df) :
          /\ loaded[k].award_id = df[k].award_id
          /\ loaded[k].recipient_name = df[k].recipient_name
          /\ loaded[k].award_amount = df[k].award_amount

C26_RoundTrip ==
    (pc = "reloaded" /\ LastSave.returned) =>
        /\ loaded_from = "latest_csv"
        /\ SameRows(LastSave.df, loaded_df)

\* whichever file the table comes from: the round trip also fails on the
\* timestamped copy of the same save
C26_RoundTripAnyFile ==
    (pc = "reloaded" /\ LastSave.returned) => SameRows(LastSave.df, loaded_df)

\* load_data never reads the latest CSV first: the collector writes it under
\* another name than the dashboard opens
C26_LatestNeverLoaded == loaded_from # "latest_csv"

\* what the reload does give for names that are no missing-value token and
\* amounts that are not negative
C26_RoundTripOfPlainRows ==
    (/\ pc = "reloaded" /\ LastSave.returned
     /\ \A k \in 1 .. Len(LastSave.df) :
           /\ LastSave.df[k].recipient_name = "Acme"
           /\ LastSave.df[k].award_amount >= 0)
        => loaded_from = "timestamped" /\ SameRows(LastSave.df, loaded_df)


(***************************************************************************)
(* The paginated fetch as a running program: once called, the loop goes   *)
(* on to its next statement, and requests.post returns (with an answer or *)
(* with the Timeout that API_TIMEOUT sets).  The caller need not call.    *)
(***************************************************************************)
SpecFair ==
    /\ Spec
    /\ WF_vars(IssueRequest)
    /\ WF_vars(\E r \in RemoteAnswers(current_limit) : ReceivePage(r))
    /\ WF_vars(Sleep)
    /\ WF_vars(LeaveLoop)
    /\ WF_vars(Return)

(***************************************************************************)
(* C27: for every target T and every pattern of page successes, failures  *)
(* and short pages, one paginated fetch issues at most ceil(T/100)        *)
(* requests and then terminates in a success or failure terminal; it      *)
(* never loops forever.                                                   *)
(***************************************************************************)
Terminal ==
    /\ pc = "done"
    /\ final_response.is_none <=> LenResults(all_results) = 0

C27_BoundedAndTerminates ==
    /\ [](Len(Requests) <= CeilOfTarget)
    /\ (pc = "loop") ~> Terminal

\* T = 250: three requests, the first failed, the second full, the third short
C27_Witness ==
    /\ Terminal /\ total_limit = 250
    /\ Len(Requests) = 3 /\ Len(Answers) = 3
    /\ Answers[1].ev = "failed"
    /\ Answers[2].ev = "records" /\ Answers[2].n = 100
    /\ Answers[3].ev = "records" /\ Answers[3].n = 1
    /\ ~final_response.is_none


(***************************************************************************)
(* C28: against a remote that serves page p with limit L as items         *)
(* (p-1)*L+1 .. p*L of one fixed ordered list, and with no failed page,   *)
(* the records accumulated by a paginated fetch with target T are exactly *)
(* the first min(T, available) items of that list, each once and in       *)
(* order: no item is fetched twice and none is skipped, also when T is    *)
(* not a multiple of 100 (the last request uses a smaller limit with the  *)
(* same page counter).                                                    *)
(*                                                                         *)
(* Items are numbered 1, 2, ... in the order of the remote's list.        *)
(***************************************************************************)
MaxAvailable == MaxTarget + api_max_limit

\* how many items such a remote, holding `available` items, serves for a request
ServedCount(available, page, limit) ==
    LET offset == (page - 1) * limit
    IN IF available <= offset THEN 0 ELSE Min(limit, available - offset)

\* the items of the n records answered to the request (page, limit)
ServedItems(page, limit, n) == [k \in 1 .. n |-> (page - 1) * limit + k]

RECURSIVE ItemsOf(_)
\* the items accumulated, in order
ItemsOf(batches) ==
    IF batches = <<>> THEN <<>>
    ELSE ServedItems(Head(batches).page, Head(batches).limit, Head(batches).n)
             \o ItemsOf(Tail(batches))

\* every answer so far is what a remote with a list of `available` items serves
PagedRemote(available) ==
    \A k \in 1 .. Len(Answers) :
        /\ Answers[k].ev # "failed"
        /\ Answers[k].n = ServedCount(available, Answers[k].page, Answers[k].limit)

C28_ExactlyTheFirstItems ==
    \A available \in 0 .. MaxAvailable :
        (pc = "done" /\ PagedRemote(available)) =>
            ItemsOf(all_results) = [k \in 1 .. Min(total_limit, available) |-> k]

\* targets that are multiples of 100 (every request has limit 100) are fetched
\* as claimed
C28_ExactForFullPages ==
    \A available \in 0 .. MaxAvailable :
        (pc = "done" /\ PagedRemote(available) /\ total_limit % api_max_limit = 0) =>
            ItemsOf(all_results) = [k \in 1 .. Min(total_limit, available) |-> k]


(***************************************************************************)
(* The entry points that send requests: the default run (main, which      *)
(* uses the paginated fetch), the interactive run (run_interactive_mode   *)
(* and main_with_params, which use fetch_spending_data) and               *)
(* fetch_all_award_types.  A request of fetch_spending_data carries no    *)
(* page: it is logged with page 0.                                        *)
(***************************************************************************)
DATA_LIMIT == 1000

\* run_interactive_mode, lines 1561-1568, and fetch_all_award_types, line 185
award_groups == <<"contracts", "grants", "direct_payments", "loans", "other">>

\* what the user may type for the number of records: nothing, no number, a number
InteractiveInputs ==
    {[kind |-> "blank", value |-> 0], [kind |-> "text", value |-> 0]}
        \cup { [kind |-> "int", value |-> v] :
                 v \in {-1, 0, 1, 50, 100, 101, 1000, 1001} }

\* lines 1586-1594: the limit run_interactive_mode passes on
InteractiveLimit(typed) ==
    LET limit == IF typed.kind = "blank" THEN DATA_LIMIT ELSE typed.value
    IN IF typed.kind = "text" THEN 50                   \* ValueError
       ELSE IF limit <= 0 \/ limit > 1000 THEN 50 ELSE limit

InitEntry ==
    /\ pc = "entry"
    /\ FetchIdle /\ ValidateIdle /\ ProcessIdle /\ ExtractIdle /\ CleanIdle /\ GateIdle
    /\ files = <<>> /\ files_before = <<>> /\ save_calls = <<>> /\ run_result = "none"
    /\ selected_group = "none" /\ save_log = <<>>
    /\ loaded_df = <<>> /\ loaded_from = "none"

\* main, lines 1401-1419: the default run calls the paginated fetch with the
\* configured DATA_LIMIT (targets up to MaxTarget here)
MainDefault ==
    /\ pc = "entry"
    /\ selected_group' = "contracts"
    /\ pc' = "idle"
    /\ UNCHANGED <<files, files_before, save_calls, run_result, save_log, reloadVars,
                   fetchVars, validateVars, processVars, extractVars, cleanVars,
                   gateVars>>

\* run_interactive_mode, lines 1555-1607, up to the call of main_with_params with
\* fetch_spending_data's award group and limit
RunInteractiveMode(choice, typed, proceed) ==
    /\ pc = "entry"
    /\ selected_group' = IF choice = 6 THEN "all" ELSE award_groups[choice]
    /\ total_limit' = InteractiveLimit(typed)
    /\ total_requests' = 1
    /\ request_num' = 0
    /\ pc' = IF proceed THEN "single" ELSE "done"
    /\ UNCHANGED <<all_results, current_limit, current_page, response, batch_data,
                   final_response, log>>
    /\ UNCHANGED <<files, files_before, save_calls, run_result, save_log, reloadVars,
                   validateVars, processVars, extractVars, cleanVars, gateVars>>

\* fetch_all_award_types(limit_per_group), lines 183-190
FetchAllAwardTypes(limit_per_group) ==
    /\ pc = "entry"
    /\ selected_group' = award_groups[1]
    /\ total_limit' = limit_per_group
    /\ total_requests' = Len(award_groups)
    /\ request_num' = 0
    /\ pc' = "single"
    /\ UNCHANGED <<all_results, current_limit, current_page, response, batch_data,
                   final_response, log>>
    /\ UNCHANGED <<files, files_before, save_calls, run_result, save_log, reloadVars,
                   validateVars, processVars, extractVars, cleanVars, gateVars>>

\* fetch_spending_data(limit, award_group), lines 37-145: an unknown award group
\* returns None; otherwise the request is posted with "limit": limit
FetchSpendingData ==
    /\ pc = "single"
    /\ IF selected_group \in { award_groups[k] : k \in 1 .. Len(award_groups) }
       THEN /\ current_limit' = total_limit
            /\ log' = Append(log, Event("request", 0, total_limit, 0,
                                        LenResults(all_results)))
            /\ pc' = "single_wait"
       ELSE /\ pc' = "done"
            /\ UNCHANGED <<current_limit, log>>
    /\ UNCHANGED <<total_limit, total_requests, request_num, all_results,
                   current_page, response, batch_data, final_response>>
    /\ UNCHANGED <<validateVars, processVars, laterVars>>

\* lines 145-181, and the loop of fetch_all_award_types, lines 190-198
ReceiveSingle(r) ==
    /\ pc = "single_wait"
    /\ response' = r
    /\ batch_data' = FetchSpendingDataWithPage(r)
    /\ all_results' = IF HasResults(batch_data')
                      THEN Append(all_results, Batch(0, current_limit, batch_data'.n))
                      ELSE all_results
    /\ request_num' = request_num + 1
    /\ IF request_num' < total_requests
       THEN pc' = "single" /\ selected_group' = award_groups[request_num' + 1]
       ELSE pc' = "done" /\ UNCHANGED selected_group
    /\ UNCHANGED <<total_limit, total_requests, current_limit, current_page,
                   final_response, log>>
    /\ UNCHANGED <<files, files_before, save_calls, run_result, save_log, reloadVars,
                   validateVars, processVars, extractVars, cleanVars, gateVars>>

\* the paginated fetch of the default run, as in Next
PaginatedFetch ==
    /\ selected_group = "contracts"
    /\ \/ \E limit \in 1 .. MaxTarget : Call(limit)
       \/ IssueRequest \/ Sleep \/ LeaveLoop \/ Return
       \/ \E r \in RemoteAnswers(current_limit) : ReceivePage(r)

NextEntry ==
    \/ MainDefault
    \/ \E choice \in 1 .. 6, typed \in InteractiveInputs, proceed \in BOOLEAN :
          RunInteractiveMode(choice, typed, proceed)
    \/ \E limit_per_group \in {10, 100} : FetchAllAwardTypes(limit_per_group)
    \/ FetchSpendingData
    \/ \E r \in RemoteAnswers(current_limit) : ReceiveSingle(r)
    \/ PaginatedFetch

SpecEntry == InitEntry /\ [][NextEntry]_vars

(***************************************************************************)
(* C30: no request sent to the remote API by any entry point (default     *)
(* run, interactive run via main_with_params, fetch_all_award_types) asks *)
(* for more than the API's per-request maximum of 100 records.            *)
(***************************************************************************)
C30_NoRequestAboveMaximum ==
    \A k \in 1 .. Len(Requests) : Requests[k].limit <= api_max_limit

\* the requests of the paginated fetch (the default run) keep to the maximum
C30_PaginatedWithinMaximum ==
    \A k \in 1 .. Len(Requests) :
        Requests[k].page >= 1 => Requests[k].limit <= api_max_limit
==========================================================================
